---- MODULE Spec2Model ----
(***************************************************************************)
(* Progression Explorer: the music-theory engine (harmonics, theory        *)
(* tables), the playback sessions (app.playSequence,                       *)
(* song-arranger.playFullSong) and the audio engine's initialisation.      *)
(*                                                                         *)
(* JavaScript strings are modelled as sequences of one-character strings,  *)
(* so that the regular expression of parseChordName, endsWith, slice,      *)
(* startsWith, split and string concatenation are computed, not assumed.   *)
(* The empty sequence stands for the falsy values '' / null / undefined.   *)
(***************************************************************************)
EXTENDS Integers, Sequences, FiniteSets, TLC

\* ------------------------------------------------------------------------
\* String literals
\* ------------------------------------------------------------------------

\* The characters of the string literals that occur in the source.  "flat"
\* is the single character U+266D of the numeral written flat-VII.
Chars(s) ==
  CASE s = ""        -> <<>>
    [] s = "#"       -> <<"#">>
    [] s = "b"       -> <<"b">>
    [] s = "m"       -> <<"m">>
    [] s = "7"       -> <<"7">>
    [] s = "maj7"    -> <<"m", "a", "j", "7">>
    [] s = "m7"      -> <<"m", "7">>
    [] s = "m7b5"    -> <<"m", "7", "b", "5">>
    [] s = "dim"     -> <<"d", "i", "m">>
    [] s = "sus4"    -> <<"s", "u", "s", "4">>
    [] s = "I"       -> <<"I">>
    [] s = "i"       -> <<"i">>
    [] s = "ii"      -> <<"i", "i">>
    [] s = "iii"     -> <<"i", "i", "i">>
    [] s = "III"     -> <<"I", "I", "I">>
    [] s = "IV"      -> <<"I", "V">>
    [] s = "iv"      -> <<"i", "v">>
    [] s = "V"       -> <<"V">>
    [] s = "v"       -> <<"v">>
    [] s = "vi"      -> <<"v", "i">>
    [] s = "VI"      -> <<"V", "I">>
    [] s = "vii"     -> <<"v", "i", "i">>
    [] s = "VII"     -> <<"V", "I", "I">>
    [] s = "flatVII" -> <<"flat", "V", "I", "I">>
    [] s = "V/"      -> <<"V", "/">>
    [] s = "V/V"     -> <<"V", "/", "V">>
    [] s = "V/ii"    -> <<"V", "/", "i", "i">>
    [] s = "V/vi"    -> <<"V", "/", "v", "i">>
    [] s = "V/iii"   -> <<"V", "/", "i", "i", "i">>

\* A note, chord or key name: letter, accidental, suffix ('F#dim', 'Bbm').
Name(letter, accidental, suffix) ==
  <<letter>> \o Chars(accidental) \o Chars(suffix)

\* ------------------------------------------------------------------------
\* data/theory.ts
\* ------------------------------------------------------------------------

NOTES ==
  <<<<"C">>, <<"C", "#">>, <<"D">>, <<"D", "#">>, <<"E">>, <<"F">>, <<"F", "#">>, <<"G">>,
    <<"G", "#">>, <<"A">>, <<"A", "#">>, <<"B">>>>

\* An object literal is the sequence of its <<property, value>> pairs, in
\* insertion order (the order of for-in and of Object.keys); a string is the
\* sequence of its characters.
MAJOR_KEYS_DIATONIC ==
  <<
    <<<<"C">>, <<<<<<"I">>, <<"C">>>>, <<<<"i", "i">>, <<"D", "m">>>>, <<<<"i", "i", "i">>, <<"E", "m">>>>, <<<<"I", "V">>, <<"F">>>>, <<<<"V">>, <<"G">>>>, <<<<"v", "i">>, <<"A", "m">>>>, <<<<"v", "i", "i">>, <<"B", "d", "i", "m">>>>>>>>,
    <<<<"G">>, <<<<<<"I">>, <<"G">>>>, <<<<"i", "i">>, <<"A", "m">>>>, <<<<"i", "i", "i">>, <<"B", "m">>>>, <<<<"I", "V">>, <<"C">>>>, <<<<"V">>, <<"D">>>>, <<<<"v", "i">>, <<"E", "m">>>>, <<<<"v", "i", "i">>, <<"F", "#", "d", "i", "m">>>>>>>>,
    <<<<"D">>, <<<<<<"I">>, <<"D">>>>, <<<<"i", "i">>, <<"E", "m">>>>, <<<<"i", "i", "i">>, <<"F", "#", "m">>>>, <<<<"I", "V">>, <<"G">>>>, <<<<"V">>, <<"A">>>>, <<<<"v", "i">>, <<"B", "m">>>>, <<<<"v", "i", "i">>, <<"C", "#", "d", "i", "m">>>>>>>>,
    <<<<"A">>, <<<<<<"I">>, <<"A">>>>, <<<<"i", "i">>, <<"B", "m">>>>, <<<<"i", "i", "i">>, <<"C", "#", "m">>>>, <<<<"I", "V">>, <<"D">>>>, <<<<"V">>, <<"E">>>>, <<<<"v", "i">>, <<"F", "#", "m">>>>, <<<<"v", "i", "i">>, <<"G", "#", "d", "i", "m">>>>>>>>,
    <<<<"E">>, <<<<<<"I">>, <<"E">>>>, <<<<"i", "i">>, <<"F", "#", "m">>>>, <<<<"i", "i", "i">>, <<"G", "#", "m">>>>, <<<<"I", "V">>, <<"A">>>>, <<<<"V">>, <<"B">>>>, <<<<"v", "i">>, <<"C", "#", "m">>>>, <<<<"v", "i", "i">>, <<"D", "#", "d", "i", "m">>>>>>>>,
    <<<<"B">>, <<<<<<"I">>, <<"B">>>>, <<<<"i", "i">>, <<"C", "#", "m">>>>, <<<<"i", "i", "i">>, <<"D", "#", "m">>>>, <<<<"I", "V">>, <<"E">>>>, <<<<"V">>, <<"F", "#">>>>, <<<<"v", "i">>, <<"G", "#", "m">>>>, <<<<"v", "i", "i">>, <<"A", "#", "d", "i", "m">>>>>>>>,
    <<<<"F", "#">>, <<<<<<"I">>, <<"F", "#">>>>, <<<<"i", "i">>, <<"G", "#", "m">>>>, <<<<"i", "i", "i">>, <<"A", "#", "m">>>>, <<<<"I", "V">>, <<"B">>>>, <<<<"V">>, <<"C", "#">>>>, <<<<"v", "i">>, <<"D", "#", "m">>>>, <<<<"v", "i", "i">>, <<"F", "d", "i", "m">>>>>>>>,
    <<<<"C", "#">>, <<<<<<"I">>, <<"C", "#">>>>, <<<<"i", "i">>, <<"D", "#", "m">>>>, <<<<"i", "i", "i">>, <<"F", "m">>>>, <<<<"I", "V">>, <<"F", "#">>>>, <<<<"V">>, <<"G", "#">>>>, <<<<"v", "i">>, <<"A", "#", "m">>>>, <<<<"v", "i", "i">>, <<"C", "d", "i", "m">>>>>>>>,
    <<<<"A", "b">>, <<<<<<"I">>, <<"A", "b">>>>, <<<<"i", "i">>, <<"B", "b", "m">>>>, <<<<"i", "i", "i">>, <<"C", "m">>>>, <<<<"I", "V">>, <<"D", "b">>>>, <<<<"V">>, <<"E", "b">>>>, <<<<"v", "i">>, <<"F", "m">>>>, <<<<"v", "i", "i">>, <<"G", "d", "i", "m">>>>>>>>,
    <<<<"E", "b">>, <<<<<<"I">>, <<"E", "b">>>>, <<<<"i", "i">>, <<"F", "m">>>>, <<<<"i", "i", "i">>, <<"G", "m">>>>, <<<<"I", "V">>, <<"A", "b">>>>, <<<<"V">>, <<"B", "b">>>>, <<<<"v", "i">>, <<"C", "m">>>>, <<<<"v", "i", "i">>, <<"D", "d", "i", "m">>>>>>>>,
    <<<<"B", "b">>, <<<<<<"I">>, <<"B", "b">>>>, <<<<"i", "i">>, <<"C", "m">>>>, <<<<"i", "i", "i">>, <<"D", "m">>>>, <<<<"I", "V">>, <<"E", "b">>>>, <<<<"V">>, <<"F">>>>, <<<<"v", "i">>, <<"G", "m">>>>, <<<<"v", "i", "i">>, <<"A", "d", "i", "m">>>>>>>>,
    <<<<"F">>, <<<<<<"I">>, <<"F">>>>, <<<<"i", "i">>, <<"G", "m">>>>, <<<<"i", "i", "i">>, <<"A", "m">>>>, <<<<"I", "V">>, <<"B", "b">>>>, <<<<"V">>, <<"C">>>>, <<<<"v", "i">>, <<"D", "m">>>>, <<<<"v", "i", "i">>, <<"E", "d", "i", "m">>>>>>>>
  >>

MINOR_KEYS_DIATONIC ==
  <<
    <<<<"A", "m">>, <<<<<<"i">>, <<"A", "m">>>>, <<<<"i", "i">>, <<"B", "d", "i", "m">>>>, <<<<"I", "I", "I">>, <<"C">>>>, <<<<"i", "v">>, <<"D", "m">>>>, <<<<"I", "V">>, <<"D">>>>, <<<<"v">>, <<"E", "m">>>>, <<<<"V", "I">>, <<"F">>>>, <<<<"V", "I", "I">>, <<"G">>>>>>>>,
    <<<<"E", "m">>, <<<<<<"i">>, <<"E", "m">>>>, <<<<"i", "i">>, <<"F", "#", "d", "i", "m">>>>, <<<<"I", "I", "I">>, <<"G">>>>, <<<<"i", "v">>, <<"A", "m">>>>, <<<<"I", "V">>, <<"A">>>>, <<<<"v">>, <<"B", "m">>>>, <<<<"V", "I">>, <<"C">>>>, <<<<"V", "I", "I">>, <<"D">>>>>>>>,
    <<<<"B", "m">>, <<<<<<"i">>, <<"B", "m">>>>, <<<<"i", "i">>, <<"C", "#", "d", "i", "m">>>>, <<<<"I", "I", "I">>, <<"D">>>>, <<<<"i", "v">>, <<"E", "m">>>>, <<<<"I", "V">>, <<"E">>>>, <<<<"v">>, <<"F", "#", "m">>>>, <<<<"V", "I">>, <<"G">>>>, <<<<"V", "I", "I">>, <<"A">>>>>>>>,
    <<<<"F", "#", "m">>, <<<<<<"i">>, <<"F", "#", "m">>>>, <<<<"i", "i">>, <<"G", "#", "d", "i", "m">>>>, <<<<"I", "I", "I">>, <<"A">>>>, <<<<"i", "v">>, <<"B", "m">>>>, <<<<"I", "V">>, <<"B">>>>, <<<<"v">>, <<"C", "#", "m">>>>, <<<<"V", "I">>, <<"D">>>>, <<<<"V", "I", "I">>, <<"E">>>>>>>>,
    <<<<"C", "#", "m">>, <<<<<<"i">>, <<"C", "#", "m">>>>, <<<<"i", "i">>, <<"D", "#", "d", "i", "m">>>>, <<<<"I", "I", "I">>, <<"E">>>>, <<<<"i", "v">>, <<"F", "#", "m">>>>, <<<<"I", "V">>, <<"F", "#">>>>, <<<<"v">>, <<"G", "#", "m">>>>, <<<<"V", "I">>, <<"A">>>>, <<<<"V", "I", "I">>, <<"B">>>>>>>>,
    <<<<"G", "#", "m">>, <<<<<<"i">>, <<"G", "#", "m">>>>, <<<<"i", "i">>, <<"A", "#", "d", "i", "m">>>>, <<<<"I", "I", "I">>, <<"B">>>>, <<<<"i", "v">>, <<"C", "#", "m">>>>, <<<<"I", "V">>, <<"C", "#">>>>, <<<<"v">>, <<"D", "#", "m">>>>, <<<<"V", "I">>, <<"E">>>>, <<<<"V", "I", "I">>, <<"F", "#">>>>>>>>,
    <<<<"D", "#", "m">>, <<<<<<"i">>, <<"D", "#", "m">>>>, <<<<"i", "i">>, <<"F", "d", "i", "m">>>>, <<<<"I", "I", "I">>, <<"F", "#">>>>, <<<<"i", "v">>, <<"G", "#", "m">>>>, <<<<"I", "V">>, <<"G", "#">>>>, <<<<"v">>, <<"A", "#", "m">>>>, <<<<"V", "I">>, <<"B">>>>, <<<<"V", "I", "I">>, <<"C", "#">>>>>>>>,
    <<<<"B", "b", "m">>, <<<<<<"i">>, <<"B", "b", "m">>>>, <<<<"i", "i">>, <<"C", "d", "i", "m">>>>, <<<<"I", "I", "I">>, <<"D", "b">>>>, <<<<"i", "v">>, <<"E", "b", "m">>>>, <<<<"I", "V">>, <<"E", "b">>>>, <<<<"v">>, <<"F", "m">>>>, <<<<"V", "I">>, <<"G", "b">>>>, <<<<"V", "I", "I">>, <<"A", "b">>>>>>>>,
    <<<<"F", "m">>, <<<<<<"i">>, <<"F", "m">>>>, <<<<"i", "i">>, <<"G", "d", "i", "m">>>>, <<<<"I", "I", "I">>, <<"A", "b">>>>, <<<<"i", "v">>, <<"B", "b", "m">>>>, <<<<"I", "V">>, <<"B", "b">>>>, <<<<"v">>, <<"C", "m">>>>, <<<<"V", "I">>, <<"D", "b">>>>, <<<<"V", "I", "I">>, <<"E", "b">>>>>>>>,
    <<<<"C", "m">>, <<<<<<"i">>, <<"C", "m">>>>, <<<<"i", "i">>, <<"D", "d", "i", "m">>>>, <<<<"I", "I", "I">>, <<"E", "b">>>>, <<<<"i", "v">>, <<"F", "m">>>>, <<<<"I", "V">>, <<"F">>>>, <<<<"v">>, <<"G", "m">>>>, <<<<"V", "I">>, <<"A", "b">>>>, <<<<"V", "I", "I">>, <<"B", "b">>>>>>>>,
    <<<<"G", "m">>, <<<<<<"i">>, <<"G", "m">>>>, <<<<"i", "i">>, <<"A", "d", "i", "m">>>>, <<<<"I", "I", "I">>, <<"B", "b">>>>, <<<<"i", "v">>, <<"C", "m">>>>, <<<<"I", "V">>, <<"C">>>>, <<<<"v">>, <<"D", "m">>>>, <<<<"V", "I">>, <<"E", "b">>>>, <<<<"V", "I", "I">>, <<"F">>>>>>>>,
    <<<<"D", "m">>, <<<<<<"i">>, <<"D", "m">>>>, <<<<"i", "i">>, <<"E", "d", "i", "m">>>>, <<<<"I", "I", "I">>, <<"F">>>>, <<<<"i", "v">>, <<"G", "m">>>>, <<<<"I", "V">>, <<"G">>>>, <<<<"v">>, <<"A", "m">>>>, <<<<"V", "I">>, <<"B", "b">>>>, <<<<"V", "I", "I">>, <<"C">>>>>>>>
  >>

PROGRESSION_RULES_MAJOR ==
  <<
    <<<<"I">>, <<[to |-> <<"I">>, weight |-> 2, isBorrowed |-> FALSE],
        [to |-> <<"I", "V">>, weight |-> 8, isBorrowed |-> FALSE],
        [to |-> <<"V">>, weight |-> 7, isBorrowed |-> FALSE],
        [to |-> <<"i", "i">>, weight |-> 6, isBorrowed |-> FALSE],
        [to |-> <<"v", "i">>, weight |-> 5, isBorrowed |-> FALSE],
        [to |-> <<"i", "v">>, weight |-> 5, isBorrowed |-> TRUE],
        [to |-> <<"V", "/", "V">>, weight |-> 4, isBorrowed |-> FALSE],
        [to |-> <<"flat", "V", "I", "I">>, weight |-> 4, isBorrowed |-> TRUE],
        [to |-> <<"i", "i", "i">>, weight |-> 3, isBorrowed |-> FALSE],
        [to |-> <<"V", "/", "i", "i", "i">>, weight |-> 3, isBorrowed |-> FALSE]>>>>,
    <<<<"i", "i">>, <<[to |-> <<"i", "i">>, weight |-> 2, isBorrowed |-> FALSE],
        [to |-> <<"V">>, weight |-> 10, isBorrowed |-> FALSE],
        [to |-> <<"v", "i", "i">>, weight |-> 4, isBorrowed |-> FALSE],
        [to |-> <<"I", "V">>, weight |-> 2, isBorrowed |-> FALSE]>>>>,
    <<<<"i", "i", "i">>, <<[to |-> <<"i", "i", "i">>, weight |-> 2, isBorrowed |-> FALSE],
        [to |-> <<"v", "i">>, weight |-> 9, isBorrowed |-> FALSE],
        [to |-> <<"I", "V">>, weight |-> 7, isBorrowed |-> FALSE],
        [to |-> <<"i", "i">>, weight |-> 4, isBorrowed |-> FALSE],
        [to |-> <<"V", "/", "v", "i">>, weight |-> 6, isBorrowed |-> FALSE]>>>>,
    <<<<"I", "V">>, <<[to |-> <<"I", "V">>, weight |-> 2, isBorrowed |-> FALSE],
        [to |-> <<"V">>, weight |-> 9, isBorrowed |-> FALSE],
        [to |-> <<"i", "v">>, weight |-> 7, isBorrowed |-> TRUE],
        [to |-> <<"V", "/", "V">>, weight |-> 6, isBorrowed |-> FALSE],
        [to |-> <<"I">>, weight |-> 5, isBorrowed |-> FALSE],
        [to |-> <<"i", "i">>, weight |-> 4, isBorrowed |-> FALSE]>>>>,
    <<<<"V">>, <<[to |-> <<"V">>, weight |-> 2, isBorrowed |-> FALSE],
        [to |-> <<"I">>, weight |-> 12, isBorrowed |-> FALSE],
        [to |-> <<"v", "i">>, weight |-> 6, isBorrowed |-> FALSE],
        [to |-> <<"V", "/", "i", "i">>, weight |-> 3, isBorrowed |-> FALSE],
        [to |-> <<"V", "/", "v", "i">>, weight |-> 3, isBorrowed |-> FALSE]>>>>,
    <<<<"v", "i">>, <<[to |-> <<"v", "i">>, weight |-> 2, isBorrowed |-> FALSE],
        [to |-> <<"i", "i">>, weight |-> 8, isBorrowed |-> FALSE],
        [to |-> <<"I", "V">>, weight |-> 8, isBorrowed |-> FALSE],
        [to |-> <<"V">>, weight |-> 5, isBorrowed |-> FALSE],
        [to |-> <<"V", "/", "i", "i">>, weight |-> 4, isBorrowed |-> FALSE]>>>>,
    <<<<"v", "i", "i">>, <<[to |-> <<"v", "i", "i">>, weight |-> 2, isBorrowed |-> FALSE],
        [to |-> <<"I">>, weight |-> 9, isBorrowed |-> FALSE],
        [to |-> <<"i", "i", "i">>, weight |-> 4, isBorrowed |-> FALSE]>>>>,
    <<<<"V", "/", "V">>, <<[to |-> <<"V", "/", "V">>, weight |-> 1, isBorrowed |-> FALSE],
        [to |-> <<"V">>, weight |-> 12, isBorrowed |-> FALSE]>>>>,
    <<<<"V", "/", "i", "i">>, <<[to |-> <<"V", "/", "i", "i">>, weight |-> 1, isBorrowed |-> FALSE],
        [to |-> <<"i", "i">>, weight |-> 12, isBorrowed |-> FALSE]>>>>,
    <<<<"V", "/", "v", "i">>, <<[to |-> <<"V", "/", "v", "i">>, weight |-> 1, isBorrowed |-> FALSE],
        [to |-> <<"v", "i">>, weight |-> 12, isBorrowed |-> FALSE]>>>>,
    <<<<"V", "/", "i", "i", "i">>, <<[to |-> <<"V", "/", "i", "i", "i">>, weight |-> 1, isBorrowed |-> FALSE],
        [to |-> <<"i", "i", "i">>, weight |-> 12, isBorrowed |-> FALSE]>>>>,
    <<<<"i", "v">>, <<[to |-> <<"i", "v">>, weight |-> 2, isBorrowed |-> FALSE],
        [to |-> <<"I">>, weight |-> 8, isBorrowed |-> FALSE],
        [to |-> <<"V">>, weight |-> 6, isBorrowed |-> FALSE]>>>>,
    <<<<"flat", "V", "I", "I">>, <<[to |-> <<"flat", "V", "I", "I">>, weight |-> 2, isBorrowed |-> FALSE],
        [to |-> <<"I">>, weight |-> 8, isBorrowed |-> FALSE],
        [to |-> <<"I", "V">>, weight |-> 6, isBorrowed |-> FALSE]>>>>
  >>

PROGRESSION_RULES_MINOR ==
  <<
    <<<<"i">>, <<[to |-> <<"i">>, weight |-> 2, isBorrowed |-> FALSE],
        [to |-> <<"V", "I">>, weight |-> 9, isBorrowed |-> FALSE],
        [to |-> <<"i", "v">>, weight |-> 8, isBorrowed |-> FALSE],
        [to |-> <<"V">>, weight |-> 7, isBorrowed |-> FALSE],
        [to |-> <<"v">>, weight |-> 6, isBorrowed |-> FALSE],
        [to |-> <<"V", "I", "I">>, weight |-> 5, isBorrowed |-> FALSE],
        [to |-> <<"I", "I", "I">>, weight |-> 4, isBorrowed |-> FALSE],
        [to |-> <<"i", "i">>, weight |-> 3, isBorrowed |-> FALSE]>>>>,
    <<<<"i", "i">>, <<[to |-> <<"i", "i">>, weight |-> 2, isBorrowed |-> FALSE],
        [to |-> <<"V">>, weight |-> 10, isBorrowed |-> FALSE],
        [to |-> <<"v">>, weight |-> 9, isBorrowed |-> FALSE],
        [to |-> <<"V", "I", "I">>, weight |-> 5, isBorrowed |-> FALSE]>>>>,
    <<<<"I", "I", "I">>, <<[to |-> <<"I", "I", "I">>, weight |-> 2, isBorrowed |-> FALSE],
        [to |-> <<"V", "I">>, weight |-> 9, isBorrowed |-> FALSE],
        [to |-> <<"i", "v">>, weight |-> 8, isBorrowed |-> FALSE]>>>>,
    <<<<"i", "v">>, <<[to |-> <<"i", "v">>, weight |-> 2, isBorrowed |-> FALSE],
        [to |-> <<"V">>, weight |-> 9, isBorrowed |-> FALSE],
        [to |-> <<"v">>, weight |-> 8, isBorrowed |-> FALSE],
        [to |-> <<"V", "I", "I">>, weight |-> 6, isBorrowed |-> FALSE],
        [to |-> <<"i">>, weight |-> 4, isBorrowed |-> FALSE]>>>>,
    <<<<"v">>, <<[to |-> <<"v">>, weight |-> 2, isBorrowed |-> FALSE],
        [to |-> <<"i">>, weight |-> 10, isBorrowed |-> FALSE],
        [to |-> <<"V", "I">>, weight |-> 5, isBorrowed |-> FALSE]>>>>,
    <<<<"V">>, <<[to |-> <<"V">>, weight |-> 2, isBorrowed |-> FALSE],
        [to |-> <<"i">>, weight |-> 12, isBorrowed |-> FALSE],
        [to |-> <<"V", "I">>, weight |-> 6, isBorrowed |-> FALSE]>>>>,
    <<<<"V", "I">>, <<[to |-> <<"V", "I">>, weight |-> 2, isBorrowed |-> FALSE],
        [to |-> <<"i", "i">>, weight |-> 8, isBorrowed |-> FALSE],
        [to |-> <<"i", "v">>, weight |-> 7, isBorrowed |-> FALSE],
        [to |-> <<"V">>, weight |-> 6, isBorrowed |-> FALSE],
        [to |-> <<"v">>, weight |-> 5, isBorrowed |-> FALSE]>>>>,
    <<<<"V", "I", "I">>, <<[to |-> <<"V", "I", "I">>, weight |-> 2, isBorrowed |-> FALSE],
        [to |-> <<"i">>, weight |-> 10, isBorrowed |-> FALSE],
        [to |-> <<"I", "I", "I">>, weight |-> 8, isBorrowed |-> FALSE]>>>>
  >>

\* ------------------------------------------------------------------------
\* JavaScript primitives
\* ------------------------------------------------------------------------

\* obj[k]: the value of property k, or undefined (<<>>).
Lookup(obj, k) ==
  IF \E i \in 1..Len(obj) : obj[i][1] = k
  THEN obj[CHOOSE i \in 1..Len(obj) : obj[i][1] = k][2]
  ELSE <<>>

\* Object.keys(obj)
Keys(obj) == [i \in 1..Len(obj) |-> obj[i][1]]

\* Array.prototype.indexOf: zero-based, -1 when absent.
IndexOf(arr, x) ==
  IF \E i \in 1..Len(arr) : arr[i] = x
  THEN (CHOOSE i \in 1..Len(arr) : arr[i] = x /\ \A j \in 1..(i - 1) : arr[j] # x) - 1
  ELSE -1

EndsWith(s, c) == Len(s) > 0 /\ s[Len(s)] = c

StartsWith(s, prefix) ==
  Len(s) >= Len(prefix) /\ SubSeq(s, 1, Len(prefix)) = prefix

\* s.slice(0, -1)
DropLast(s) == SubSeq(s, 1, Len(s) - 1)

\* s.split('/')[1]: the text between the first and the second '/',
\* undefined when s has no '/'.
SplitSlash1(s) ==
  IF \A i \in 1..Len(s) : s[i] # "/" THEN <<>>
  ELSE LET first == CHOOSE i \in 1..Len(s) : s[i] = "/" /\ \A j \in 1..(i - 1) : s[j] # "/"
           rest  == SubSeq(s, first + 1, Len(s))
       IN IF \A i \in 1..Len(rest) : rest[i] # "/" THEN rest
          ELSE SubSeq(rest, 1, (CHOOSE i \in 1..Len(rest) :
                                   rest[i] = "/" /\ \A j \in 1..(i - 1) : rest[j] # "/") - 1)

\* ------------------------------------------------------------------------
\* harmonics.ts
\* ------------------------------------------------------------------------

\* The result null of parseChordName.
NoParse == [matched |-> FALSE, root |-> <<>>, quality |-> <<>>]

\* chordName.match(/^([A-G][#b]?)(.*)$/)
parseChordName(chordName) ==
  IF Len(chordName) = 0 \/ Head(chordName) \notin {"A", "B", "C", "D", "E", "F", "G"}
  THEN NoParse
  ELSE IF Len(chordName) >= 2 /\ chordName[2] \in {"#", "b"}
       THEN [matched |-> TRUE, root |-> SubSeq(chordName, 1, 2),
             quality |-> SubSeq(chordName, 3, Len(chordName))]
       ELSE [matched |-> TRUE, root |-> SubSeq(chordName, 1, 1),
             quality |-> Tail(chordName)]

\* realizeRomanNumeral returning the minor v chord itself for V (root not taken).
realizeRomanNumeral_MinorDominant(roman, key) ==
  IF EndsWith(key, "m")
  THEN LET minorChords == Lookup(MINOR_KEYS_DIATONIC, key)
           v_chord     == Lookup(minorChords, Chars("v"))
           parsed      == parseChordName(v_chord)
       IN IF minorChords = <<>> THEN <<>>
          ELSE IF roman = Chars("V") /\ v_chord # <<>>
                  /\ parsed.matched /\ parsed.quality = Chars("m")
               THEN v_chord
               ELSE Lookup(minorChords, roman)
  ELSE LET keyChordsMajor      == Lookup(MAJOR_KEYS_DIATONIC, key)
           targetRoman         == SplitSlash1(roman)
           targetChordName     == Lookup(keyChordsMajor, targetRoman)
           targetParsed        == parseChordName(targetChordName)
           targetRootIndex     == IndexOf(NOTES, targetParsed.root)
           dominantRootIndex   == (targetRootIndex + 7) % 12
           parallelMinorKey    == key \o Chars("m")
           parallelMinorChords == Lookup(MINOR_KEYS_DIATONIC, parallelMinorKey)
       IN IF keyChordsMajor = <<>> THEN <<>>
          ELSE IF StartsWith(roman, Chars("V/"))
               THEN IF targetChordName = <<>> THEN <<>>
                    ELSE IF ~targetParsed.matched THEN <<>>
                    ELSE IF targetRootIndex = -1 THEN <<>>
                    ELSE NOTES[dominantRootIndex + 1]
          ELSE IF roman = Chars("iv") THEN Lookup(parallelMinorChords, Chars("iv"))
          ELSE IF roman = Chars("flatVII") THEN Lookup(parallelMinorChords, Chars("VII"))
          ELSE Lookup(keyChordsMajor, roman)

realizeRomanNumeral(roman, key) ==
  IF EndsWith(key, "m")
  THEN LET minorChords == Lookup(MINOR_KEYS_DIATONIC, key)
           v_chord     == Lookup(minorChords, Chars("v"))
           parsed      == parseChordName(v_chord)
       IN IF minorChords = <<>> THEN <<>>
          ELSE IF roman = Chars("V") /\ v_chord # <<>>
                  /\ parsed.matched /\ parsed.quality = Chars("m")
               THEN parsed.root
               ELSE Lookup(minorChords, roman)
  ELSE LET keyChordsMajor      == Lookup(MAJOR_KEYS_DIATONIC, key)
           targetRoman         == SplitSlash1(roman)
           targetChordName     == Lookup(keyChordsMajor, targetRoman)
           targetParsed        == parseChordName(targetChordName)
           targetRootIndex     == IndexOf(NOTES, targetParsed.root)
           dominantRootIndex   == (targetRootIndex + 7) % 12
           parallelMinorKey    == key \o Chars("m")
           parallelMinorChords == Lookup(MINOR_KEYS_DIATONIC, parallelMinorKey)
       IN IF keyChordsMajor = <<>> THEN <<>>
          ELSE IF StartsWith(roman, Chars("V/"))
               THEN IF targetChordName = <<>> THEN <<>>
                    ELSE IF ~targetParsed.matched THEN <<>>
                    ELSE IF targetRootIndex = -1 THEN <<>>
                    ELSE NOTES[dominantRootIndex + 1]
          ELSE IF roman = Chars("iv") THEN Lookup(parallelMinorChords, Chars("iv"))
          ELSE IF roman = Chars("flatVII") THEN Lookup(parallelMinorChords, Chars("VII"))
          ELSE Lookup(keyChordsMajor, roman)

\* for (const roman in keyChords) if (keyChords[roman] === chordName) return roman
FirstRomanOf(keyChords, chordName) ==
  IF \E i \in 1..Len(keyChords) : keyChords[i][2] = chordName
  THEN keyChords[CHOOSE i \in 1..Len(keyChords) :
                    /\ keyChords[i][2] = chordName
                    /\ \A j \in 1..(i - 1) : keyChords[j][2] # chordName][1]
  ELSE <<>>

\* The loop over Object.keys(PROGRESSION_RULES_MAJOR) of findFunctionOfChord.
RECURSIVE NonDiatonicFunctionOf(_, _, _, _)
NonDiatonicFunctionOf(allFunctions, keyChords, chordName, key) ==
  IF allFunctions = <<>> THEN <<>>
  ELSE LET func              == Head(allFunctions)
           realizedChordName == realizeRomanNumeral(func, key)
           parsedRealized    == parseChordName(realizedChordName)
           parsedCurrent     == parseChordName(chordName)
       IN IF Lookup(keyChords, func) # <<>>
          THEN NonDiatonicFunctionOf(Tail(allFunctions), keyChords, chordName, key)
          ELSE IF realizedChordName = chordName THEN func
          ELSE IF parsedRealized.matched /\ parsedCurrent.matched
                  /\ parsedRealized.root = parsedCurrent.root
                  /\ StartsWith(func, Chars("V/"))
                  /\ parsedCurrent.quality \in {Chars(""), Chars("7")}
               THEN func
          ELSE NonDiatonicFunctionOf(Tail(allFunctions), keyChords, chordName, key)

\* findFunctionOfChord without the check for the harmonic minor V.
findFunctionOfChord_DiatonicOnly(chordName, key) ==
  IF EndsWith(key, "m")
  THEN LET keyChords     == Lookup(MINOR_KEYS_DIATONIC, key)
           exact         == FirstRomanOf(keyChords, chordName)
           v_chord       == Lookup(keyChords, Chars("v"))
           parsedV       == parseChordName(v_chord)
           parsedCurrent == parseChordName(chordName)
       IN IF keyChords = <<>> THEN <<>>
          ELSE IF exact # <<>> THEN exact
          ELSE <<>>
  ELSE LET keyChords == Lookup(MAJOR_KEYS_DIATONIC, key)
           exact     == FirstRomanOf(keyChords, chordName)
       IN IF keyChords = <<>> THEN <<>>
          ELSE IF exact # <<>> THEN exact
          ELSE NonDiatonicFunctionOf(Keys(PROGRESSION_RULES_MAJOR), keyChords, chordName, key)

findFunctionOfChord(chordName, key) ==
  IF EndsWith(key, "m")
  THEN LET keyChords     == Lookup(MINOR_KEYS_DIATONIC, key)
           exact         == FirstRomanOf(keyChords, chordName)
           v_chord       == Lookup(keyChords, Chars("v"))
           parsedV       == parseChordName(v_chord)
           parsedCurrent == parseChordName(chordName)
       IN IF keyChords = <<>> THEN <<>>
          ELSE IF exact # <<>> THEN exact
          ELSE IF v_chord # <<>> /\ parsedV.matched /\ parsedCurrent.matched
                  /\ parsedV.root = parsedCurrent.root
                  /\ parsedCurrent.quality \in {Chars(""), Chars("7")}
               THEN Chars("V")
          ELSE <<>>
  ELSE LET keyChords == Lookup(MAJOR_KEYS_DIATONIC, key)
           exact     == FirstRomanOf(keyChords, chordName)
       IN IF keyChords = <<>> THEN <<>>
          ELSE IF exact # <<>> THEN exact
          ELSE NonDiatonicFunctionOf(Keys(PROGRESSION_RULES_MAJOR), keyChords, chordName, key)

\* The inner function fallbackTranspose of transposeChordSequence.
fallbackTranspose(chord, oldKeyTonic, newKeyTonic) ==
  LET oldKeyParsed    == parseChordName(oldKeyTonic)
      newKeyParsed    == parseChordName(newKeyTonic)
      oldKeyRootIndex == IndexOf(NOTES, oldKeyParsed.root)
      newKeyRootIndex == IndexOf(NOTES, newKeyParsed.root)
      interval        == newKeyRootIndex - oldKeyRootIndex
      parsed          == parseChordName(chord)
      rootIndex       == IndexOf(NOTES, parsed.root)
      newRootIndex    == (rootIndex + interval + 12) % 12
  IN IF ~oldKeyParsed.matched \/ ~newKeyParsed.matched THEN chord
     ELSE IF oldKeyRootIndex = -1 \/ newKeyRootIndex = -1 THEN chord
     ELSE IF ~parsed.matched THEN chord
     ELSE IF rootIndex = -1 THEN chord
     ELSE NOTES[newRootIndex + 1] \o parsed.quality

minorToMajorMap ==
  <<<<Chars("i"), Chars("I")>>, <<Chars("ii"), Chars("ii")>>, <<Chars("III"), Chars("iii")>>,
    <<Chars("iv"), Chars("IV")>>, <<Chars("v"), Chars("V")>>, <<Chars("V"), Chars("V")>>,
    <<Chars("VI"), Chars("vi")>>, <<Chars("VII"), Chars("vii")>>>>

majorToMinorMap ==
  <<<<Chars("I"), Chars("i")>>, <<Chars("ii"), Chars("ii")>>, <<Chars("iii"), Chars("III")>>,
    <<Chars("IV"), Chars("iv")>>, <<Chars("V"), Chars("V")>>, <<Chars("vi"), Chars("VI")>>,
    <<Chars("vii"), Chars("VII")>>>>

transposeChordSequence(sequence, oldKey, newKey) ==
  LET oldKeyTonic   == IF EndsWith(oldKey, "m") THEN DropLast(oldKey) ELSE oldKey
      newKeyTonic   == IF EndsWith(newKey, "m") THEN DropLast(newKey) ELSE newKey
      oldKeyIsMinor == EndsWith(oldKey, "m")
      newKeyIsMinor == EndsWith(newKey, "m")
      harmonic(chord) ==
        LET roman       == findFunctionOfChord(chord, oldKey)
            mapped      == IF oldKeyIsMinor THEN Lookup(minorToMajorMap, roman)
                                            ELSE Lookup(majorToMinorMap, roman)
            targetRoman == IF mapped # <<>> THEN mapped ELSE roman
            newChord    == realizeRomanNumeral(targetRoman, newKey)
        IN IF roman = <<>> THEN fallbackTranspose(chord, oldKeyTonic, newKeyTonic)
           ELSE IF newChord # <<>> THEN newChord
           ELSE fallbackTranspose(chord, oldKeyTonic, newKeyTonic)
  IN IF oldKeyIsMinor = newKeyIsMinor
     THEN [i \in 1..Len(sequence) |-> fallbackTranspose(sequence[i], oldKeyTonic, newKeyTonic)]
     ELSE [i \in 1..Len(sequence) |-> harmonic(sequence[i])]

\* The value of a set of one element. The({Body(x) : x \in {value}}) is
\* "const x = value; Body(x)": value is computed once, where the statement
\* stands, and Body reads the result.
The(singleton) == CHOOSE result \in singleton : TRUE

\* Array.prototype.sort((a, b) => b.weight - a.weight): in place and stable.
RECURSIVE InsertByWeight(_, _)
InsertByWeight(sorted, t) ==
  IF sorted = <<>> THEN <<t>>
  ELSE IF Head(sorted).weight >= t.weight
       THEN <<Head(sorted)>> \o InsertByWeight(Tail(sorted), t)
       ELSE <<t>> \o sorted

RECURSIVE SortByWeightDesc(_)
SortByWeightDesc(arr) ==
  IF arr = <<>> THEN <<>>
  ELSE The({InsertByWeight(init, arr[Len(arr)]) :
              init \in {SortByWeightDesc(SubSeq(arr, 1, Len(arr) - 1))}})

\* obj[k] = v for an existing property k.
Assign(obj, k, v) ==
  [i \in 1..Len(obj) |-> IF obj[i][1] = k THEN <<k, v>> ELSE obj[i]]

\* [...new Set(arr)]: first occurrences, in order.
RECURSIVE Unique(_)
Unique(arr) ==
  IF arr = <<>> THEN <<>>
  ELSE The({IF \E i \in 1..Len(init) : init[i] = arr[Len(arr)]
            THEN init ELSE Append(init, arr[Len(arr)]) :
              init \in {Unique(SubSeq(arr, 1, Len(arr) - 1))}})

\* transitions.map(t => ...).filter(Boolean) of getCommonProgressions, with a
\* self-loop realised like any other transition.
nextChords_NoSelfLoop(transitions, currentFunction, fromChord, key) ==
  LET Truthy(c) == c # <<>>
  IN SelectSeq([i \in 1..Len(transitions) |->
                  realizeRomanNumeral(transitions[i].to, key)], Truthy)

\* transitions.map(t => ...).filter(Boolean) of getCommonProgressions.
nextChords(transitions, currentFunction, fromChord, key) ==
  LET Truthy(c) == c # <<>>
  IN SelectSeq([i \in 1..Len(transitions) |->
                  IF transitions[i].to = currentFunction THEN fromChord
                  ELSE realizeRomanNumeral(transitions[i].to, key)], Truthy)

\* getCommonProgressions realising a self-loop like any other transition.
getCommonProgressions_NoSelfLoop(fromChord, key, allowBorrowed, progressionRules) ==
  LET isMinorKey        == EndsWith(key, "m")
      NotBorrowed(rule) == allowBorrowed \/ ~rule.isBorrowed
      Return(currentFunction, sorted, chords) ==
        [returned |-> Unique(chords),
         rules    |-> Assign(progressionRules, currentFunction, sorted)]
      Map(currentFunction, sorted, transitions) ==
        The({Return(currentFunction, sorted, chords) :
               chords \in {nextChords_NoSelfLoop(transitions, currentFunction, fromChord, key)}})
      Filter(currentFunction, sorted) ==
        The({Map(currentFunction, sorted, transitions) :
               transitions \in {IF ~isMinorKey THEN SelectSeq(sorted, NotBorrowed)
                                               ELSE sorted}})
      Sort(currentFunction) ==
        IF currentFunction = <<>> \/ Lookup(progressionRules, currentFunction) = <<>>
        THEN [returned |-> <<>>, rules |-> progressionRules]
        ELSE The({Filter(currentFunction, sorted) :
                    sorted \in {SortByWeightDesc(Lookup(progressionRules,
                                                        currentFunction))}})
  IN The({Sort(currentFunction) :
            currentFunction \in {findFunctionOfChord(fromChord, key)}})

\* getCommonProgressions on the rules table of the key's mode: the array it
\* returns, and the table it leaves (sort works in place on the table's array).
getCommonProgressions(fromChord, key, allowBorrowed, progressionRules) ==
  LET isMinorKey        == EndsWith(key, "m")
      NotBorrowed(rule) == allowBorrowed \/ ~rule.isBorrowed
      Return(currentFunction, sorted, chords) ==
        [returned |-> Unique(chords),
         rules    |-> Assign(progressionRules, currentFunction, sorted)]
      Map(currentFunction, sorted, transitions) ==
        The({Return(currentFunction, sorted, chords) :
               chords \in {nextChords(transitions, currentFunction, fromChord, key)}})
      Filter(currentFunction, sorted) ==
        The({Map(currentFunction, sorted, transitions) :
               transitions \in {IF ~isMinorKey THEN SelectSeq(sorted, NotBorrowed)
                                               ELSE sorted}})
      Sort(currentFunction) ==
        IF currentFunction = <<>> \/ Lookup(progressionRules, currentFunction) = <<>>
        THEN [returned |-> <<>>, rules |-> progressionRules]
        ELSE The({Filter(currentFunction, sorted) :
                    sorted \in {SortByWeightDesc(Lookup(progressionRules,
                                                        currentFunction))}})
  IN The({Sort(currentFunction) :
            currentFunction \in {findFunctionOfChord(fromChord, key)}})

\* ------------------------------------------------------------------------
\* State
\* ------------------------------------------------------------------------

VARIABLES
  args,        \* the arguments the caller passed to the engine
  heldChord,       \* the chord name being analysed or last realised
  heldRoman,       \* the Roman numeral being realised or last found
  trace,       \* the engine functions applied so far, in order
  transposed,  \* the array returned by transposeChordSequence
  rulesMajor,  \* the object PROGRESSION_RULES_MAJOR (its arrays are sorted in place)
  rulesMinor,  \* the object PROGRESSION_RULES_MINOR
  suggestions,  \* the array returned by getCommonProgressions
  calls        \* number of getCommonProgressions calls made

theoryVars == <<args, heldChord, heldRoman, trace, transposed, rulesMajor, rulesMinor, suggestions, calls>>

VARIABLES
  savedInstrument,        \* getSavedInstrument(): "none" or "guitar"
  highlightedNodes,       \* the highlighted chord nodes in level order, each by the way it plays
  songStructure,          \* the sections of the song, each the sequence of its chords
  soundfontDefined,       \* typeof Soundfont !== 'undefined'
  loopActive,             \* loopBtn.classList.contains('active')
  buttons,                \* the disabled flags of playBtn, stopBtn and loopBtn
  isPlaying,              \* app.ts
  stopPlaybackRequested,  \* app.ts
  isLoopingActive,        \* the constant of that name of the running playSequence
  seqPc,                  \* where playSequence stands: "idle", "run", "timer"
  seqCursor,              \* index of the node playSequence took last in this pass
  isSongPlaying,          \* song-arranger.ts
  stopSongRequested,      \* song-arranger.ts
  songPc,                 \* where playFullSong stands: "idle", "init", "run", "timer"
  songCursor,             \* <<section, chord>> playFullSong took last
  isInitialized,          \* audio.isInitialized (context and players are set with it)
  isInitializing,         \* audio.isInitializing
  welcomePc,              \* where the welcome button's handler stands: "idle", "init"
  thenCallbacks,          \* chords playChord replays once the pending init() resolves
  played,                 \* chords for which player.play was called
  audit,                  \* per session: started uninitialised, init attempts, an attempt failed
  initCaller              \* who started the initialisation in flight

audioVars == <<isInitialized, isInitializing, thenCallbacks, played, audit, initCaller>>
seqVars == <<isPlaying, stopPlaybackRequested, isLoopingActive, seqPc, seqCursor, buttons>>
songVars == <<isSongPlaying, stopSongRequested, songPc, songCursor>>
pageVars == <<savedInstrument, highlightedNodes, songStructure, soundfontDefined, loopActive, welcomePc>>
playbackVars == <<pageVars, seqVars, songVars, audioVars>>

VARIABLES
  editorOpen,             \* the rhythm editor's modal is on display
  editingPatternId,       \* strumming.ts: id of the custom pattern being edited, '' for null
  editorTimeSignature,    \* rhythmTimeSignatureSelect.value
  editorStrumGrid,        \* strumming.ts: one of 'rest', 'down', 'up' per step
  customPatterns,         \* storage: the saved custom strum patterns of the instrument
  pattern,                \* what getPatternById returned last, <<>> for null
  gridClicks              \* number of clicks made on the editor's grid

rhythmVars == <<editorOpen, editingPatternId, editorTimeSignature, editorStrumGrid,
                customPatterns, pattern, gridClicks>>

VARIABLES
  chordDB,                \* data/chords: GUITAR_CHORDS and UKULELE_CHORDS, by instrument
  voicingCall,            \* the last call of getVoicingForChord and what it returned
  validatorRan,           \* runChordVoicingValidator has run
  issues                  \* what validateCatalog returned, by instrument

catalogVars == <<chordDB, voicingCall, validatorRan, issues>>

VARIABLES
  nodes,                  \* the highlighted chord nodes, by level; a node's parent is the one before it
  midi                    \* the locals of the last exportProgressionToMidi, <<>> before the first

exportVars == <<nodes, midi>>

VARIABLES
  inMemoryState,          \* storage: _inMemoryState, the number of edits made to each instrument's state
  saveTimeout,            \* storage: _saveTimeout, 0 for null
  timers,                 \* the timeouts of the window that are pending, each with the seconds left
  nextTimerId,            \* the id that window.setTimeout returns next
  persistRuns,            \* the calls of _persistState in flight: who made each and the dbSet it awaits
  idb,                    \* the values of the keys of the IndexedDB store
  storeAccepts,           \* whether a put of the store succeeds
  sinceCall               \* seconds since the last call of _debouncedPersist, DebounceSeconds + 1 for more

storeVars == <<inMemoryState, saveTimeout, timers, nextTimerId, persistRuns, idb, storeAccepts,
               sinceCall>>

VARIABLES
  indicator,              \* what updatePatternIndicator last showed: the node, its pattern and the inherited mark
  workspaceState,         \* the currentProgression of the workspace state last saved, <<>> for none
  captured                \* each node's chord, voicing index and effective pattern when that state was captured

treeVars == <<indicator, workspaceState, captured>>

VARIABLES
  arpeggioCall            \* the last call of audio.playArpeggiatedChord: its arguments, the order and the notes scheduled

schedulerVars == <<arpeggioCall>>

VARIABLES
  sectionArrays,          \* the SongSection[] arrays that are alive, by address
  songStructureAt,        \* song-arranger: the address of the array songStructure refers to
  savedSongs              \* storage: the songs of the instrument's state, each with the address of its structure

arrangerVars == <<sectionArrays, songStructureAt, savedSongs>>

VARIABLES
  handlerChord,   \* per node of the path: chordName of the createChordNode call its click handler closes over
  expanded,       \* per node of the path: dataset.expanded
  lastClick       \* what the last click on a node found and did, <<>> before the first

clickVars == <<handlerChord, expanded, lastClick>>

appVars == <<storeVars, treeVars, schedulerVars, arrangerVars, clickVars>>
besideStore == <<treeVars, schedulerVars, arrangerVars, clickVars>>
besideTree == <<storeVars, schedulerVars, arrangerVars, clickVars>>
besideScheduler == <<storeVars, treeVars, arrangerVars, clickVars>>
besideArranger == <<storeVars, schedulerVars>>

toolVars == <<rhythmVars, catalogVars, exportVars, appVars>>

vars == <<theoryVars, playbackVars, toolVars>>

Sessions == {"seq", "song"}
NoAudit == [cold |-> FALSE, attempts |-> 0, failed |-> FALSE]
ButtonsAtRest == [play |-> FALSE, stop |-> TRUE, loop |-> FALSE]

\* No playback session and nothing to play.
SessionsAtRest ==
  /\ highlightedNodes = <<>>
  /\ songStructure = <<>>
  /\ soundfontDefined = TRUE
  /\ loopActive = FALSE
  /\ buttons = ButtonsAtRest
  /\ isPlaying = FALSE
  /\ stopPlaybackRequested = FALSE
  /\ isLoopingActive = FALSE
  /\ seqPc = "idle"
  /\ seqCursor = 0
  /\ isSongPlaying = FALSE
  /\ stopSongRequested = FALSE
  /\ songPc = "idle"
  /\ songCursor = <<0, 0>>
  /\ isInitialized = FALSE
  /\ isInitializing = FALSE
  /\ welcomePc = "idle"
  /\ thenCallbacks = {}
  /\ played = {}
  /\ audit = [s \in Sessions |-> NoAudit]
  /\ initCaller = "none"

\* The page with nothing highlighted, no song and no session.
PlaybackAtRest ==
  /\ savedInstrument = "none"
  /\ SessionsAtRest

\* The rhythm editor closed and no custom pattern saved.
RhythmAtRest ==
  /\ editorOpen = FALSE
  /\ editingPatternId = ""
  /\ editorTimeSignature = "4/4"
  /\ editorStrumGrid = <<>>
  /\ customPatterns = <<>>
  /\ pattern = <<>>
  /\ gridClicks = 0

NoCatalogue == [guitar |-> <<>>, ukulele |-> <<>>]

\* No chord catalogue loaded, no voicing asked for, the validator not run.
CatalogAtRest ==
  /\ chordDB = NoCatalogue
  /\ voicingCall = <<>>
  /\ validatorRan = FALSE
  /\ issues = NoCatalogue

\* No chord highlighted and nothing exported.
ExportAtRest ==
  /\ nodes = <<>>
  /\ midi = <<>>

\* storage.ts: 2-second debounce
DebounceSeconds == 2

\* The state as initializeState leaves it with an empty store, no timeout
\* set and no write in flight.
StoreAtRest ==
  /\ inMemoryState = [guitar |-> 0, ukulele |-> 0]
  /\ saveTimeout = 0
  /\ timers = {}
  /\ nextTimerId = 1
  /\ persistRuns = <<>>
  /\ idb = [guitar |-> 0, ukulele |-> 0, lastActiveInstrument |-> "none"]
  /\ storeAccepts = TRUE
  /\ sinceCall = DebounceSeconds + 1

\* The indicator of a node whose pattern placeholder is empty.
NoIndicator == [pattern |-> <<>>, isInherited |-> FALSE]

\* No node shows a pattern and no workspace state has been saved.
TreeAtRest ==
  /\ indicator = [n \in 1..Len(nodes) |-> NoIndicator]
  /\ workspaceState = <<>>
  /\ captured = <<>>

\* The arranger's array is the only one and is empty; no song is saved.
ArrangerAtRest == sectionArrays = <<<<>>>> /\ songStructureAt = 1 /\ savedSongs = <<>>

\* Every node is collapsed, carries the handler createChordNode gave it and
\* has not been clicked.
ClickAtRest ==
  /\ handlerChord = [n \in 1..Len(nodes) |-> nodes[n].chord]
  /\ expanded = [n \in 1..Len(nodes) |-> FALSE]
  /\ lastClick = <<>>

AppAtRest == StoreAtRest /\ TreeAtRest /\ arpeggioCall = <<>> /\ ArrangerAtRest /\ ClickAtRest

ToolsAtRest == RhythmAtRest /\ CatalogAtRest /\ ExportAtRest /\ AppAtRest

\* ------------------------------------------------------------------------
\* Inputs
\* ------------------------------------------------------------------------

MaxSeqLen == 2
MaxCalls == 3

\* The keys of the two key tables ('C', 'F#', 'Bb', 'Am', 'G#m', ...).
MajorKeys == {Keys(MAJOR_KEYS_DIATONIC)[i] : i \in 1..Len(MAJOR_KEYS_DIATONIC)}
MinorKeys == {Keys(MINOR_KEYS_DIATONIC)[i] : i \in 1..Len(MINOR_KEYS_DIATONIC)}
SupportedKeys == MajorKeys \cup MinorKeys

\* Root spellings: the twelve of NOTES and the five flats.
Roots ==
  {NOTES[i] : i \in 1..Len(NOTES)}
    \cup {Name("D", "b", ""), Name("E", "b", ""), Name("G", "b", ""),
          Name("A", "b", ""), Name("B", "b", "")}

Qualities == {Chars(""), Chars("m"), Chars("7"), Chars("maj7"), Chars("m7"),
              Chars("m7b5"), Chars("dim")}

Chords == {r \o q : r \in Roots, q \in Qualities}

\* Every numeral of the key tables and of the successor tables.
Romans ==
  {Chars(s) : s \in {"I", "ii", "iii", "IV", "V", "vi", "vii", "i", "III", "iv", "v",
                     "VI", "VII", "V/V", "V/ii", "V/vi", "V/iii", "flatVII"}}

NoArgs == [roman |-> <<>>, chord |-> <<>>, key |-> <<>>, newKey |-> <<>>,
           sequence |-> <<>>, allowBorrowed |-> FALSE]

\* ------------------------------------------------------------------------
\* The harmonic analyser: realizeRomanNumeral and findFunctionOfChord
\* ------------------------------------------------------------------------

InitTheory ==
  /\ \E k \in SupportedKeys :
        \/ \E r \in Romans : args = [NoArgs EXCEPT !.roman = r, !.key = k]
        \/ \E c \in Chords : args = [NoArgs EXCEPT !.chord = c, !.key = k]
  /\ heldChord = args.chord
  /\ heldRoman = args.roman
  /\ trace = <<>>
  /\ transposed = <<>>
  /\ rulesMajor = PROGRESSION_RULES_MAJOR
  /\ rulesMinor = PROGRESSION_RULES_MINOR
  /\ suggestions = <<>>
  /\ calls = 0
  /\ PlaybackAtRest
  /\ ToolsAtRest

\* A caller realises the numeral it holds (at most once per run).
Realize ==
  /\ heldRoman # <<>>
  /\ trace \in {<<>>, <<"find">>}
  /\ heldChord' = realizeRomanNumeral(heldRoman, args.key)
  /\ trace' = Append(trace, "realize")
  /\ UNCHANGED <<args, heldRoman, transposed, rulesMajor, rulesMinor, suggestions, calls>>
  /\ UNCHANGED <<playbackVars, toolVars>>

\* A caller asks for the function of the chord it holds (at most once per run).
FindFunction ==
  /\ heldChord # <<>>
  /\ trace \in {<<>>, <<"realize">>}
  /\ heldRoman' = findFunctionOfChord(heldChord, args.key)
  /\ trace' = Append(trace, "find")
  /\ UNCHANGED <<args, heldChord, transposed, rulesMajor, rulesMinor, suggestions, calls>>
  /\ UNCHANGED <<playbackVars, toolVars>>

NextTheory == Realize \/ FindFunction

SpecTheory == InitTheory /\ [][NextTheory]_vars

\* ------------------------------------------------------------------------
\* The transposer
\* ------------------------------------------------------------------------

\* The chords drawn for transposed sequences: sharp and flat roots, chords
\* with and without a function.
TransposeChords ==
  {Name("C", "", ""), Name("A", "", "m"), Name("G", "", ""), Name("E", "", "7"),
   Name("B", "b", ""), Name("E", "b", "m"), Name("F", "#", "m"), Name("C", "#", "dim")}

RECURSIVE SeqsUpTo(_, _)
SeqsUpTo(S, n) ==
  IF n = 0 THEN {<<>>}
  ELSE LET shorter == SeqsUpTo(S, n - 1)
       IN shorter \cup {Append(s, x) : s \in shorter, x \in S}

\* Scenario S3 of the specification.
S3Sequence == <<Name("A", "", "m"), Name("F", "", ""), Name("C", "", ""), Name("G", "", "")>>

InitTranspose ==
  /\ \E k1 \in SupportedKeys, k2 \in SupportedKeys :
     \E s \in SeqsUpTo(TransposeChords, MaxSeqLen) \cup {S3Sequence} :
        args = [NoArgs EXCEPT !.key = k1, !.newKey = k2, !.sequence = s]
  /\ heldChord = <<>>
  /\ heldRoman = <<>>
  /\ trace = <<>>
  /\ transposed = <<>>
  /\ rulesMajor = PROGRESSION_RULES_MAJOR
  /\ rulesMinor = PROGRESSION_RULES_MINOR
  /\ suggestions = <<>>
  /\ calls = 0
  /\ PlaybackAtRest
  /\ ToolsAtRest

\* renderApp on a key change: the highlighted sequence is transposed.
Transpose ==
  /\ trace = <<>>
  /\ transposed' = transposeChordSequence(args.sequence, args.key, args.newKey)
  /\ trace' = <<"transpose">>
  /\ UNCHANGED <<args, heldChord, heldRoman, rulesMajor, rulesMinor, suggestions, calls>>
  /\ UNCHANGED <<playbackVars, toolVars>>

NextTranspose == Transpose

SpecTranspose == InitTranspose /\ [][NextTranspose]_vars

\* ------------------------------------------------------------------------
\* The successor engine
\* ------------------------------------------------------------------------

SuggestChords ==
  {r \o q : r \in Roots, q \in {Chars(""), Chars("m"), Chars("7"), Chars("dim")}}

\* Guided mode of the tree (createChordNode.mainClickHandler): the key and the
\* borrowed-chords toggle are settings of the page, heldChord is the chord of
\* the tree's root node and suggestions are the child nodes of the node
\* clicked last.
InitSuggest ==
  /\ \E k \in SupportedKeys, b \in BOOLEAN :
        args = [NoArgs EXCEPT !.key = k, !.allowBorrowed = b]
  /\ heldChord \in SuggestChords
  /\ heldRoman = <<>>
  /\ trace = <<>>
  /\ transposed = <<>>
  /\ rulesMajor = PROGRESSION_RULES_MAJOR
  /\ rulesMinor = PROGRESSION_RULES_MINOR
  /\ suggestions = <<>>
  /\ calls = 0
  /\ PlaybackAtRest
  /\ ToolsAtRest

\* A click on the root node or on one of the child nodes on display asks for
\* the successors of that node's chord.
GetCommonProgressions ==
  /\ calls < MaxCalls
  /\ \E fromChord \in {heldChord} \cup {suggestions[i] : i \in 1..Len(suggestions)} :
     \E isMinorKey \in {EndsWith(args.key, "m")} :
     \E call \in {getCommonProgressions(fromChord, args.key, args.allowBorrowed,
                                        IF isMinorKey THEN rulesMinor ELSE rulesMajor)} :
        /\ args' = [args EXCEPT !.chord = fromChord]
        /\ suggestions' = call.returned
        /\ rulesMinor' = IF isMinorKey THEN call.rules ELSE rulesMinor
        /\ rulesMajor' = IF isMinorKey THEN rulesMajor ELSE call.rules
  /\ calls' = calls + 1
  /\ trace' = <<"suggest">>
  /\ UNCHANGED <<heldChord, heldRoman, transposed>>
  /\ UNCHANGED <<playbackVars, toolVars>>

NextSuggest == GetCommonProgressions

SpecSuggest == InitSuggest /\ [][NextSuggest]_vars

\* ------------------------------------------------------------------------
\* Vocabulary of the properties
\* ------------------------------------------------------------------------

\* Pitch class of a root spelling, flats folded onto sharps (C = 0).
PitchClassOf(root) ==
  LET sharp == CASE root = Name("D", "b", "") -> Name("C", "#", "")
                 [] root = Name("E", "b", "") -> Name("D", "#", "")
                 [] root = Name("G", "b", "") -> Name("F", "#", "")
                 [] root = Name("A", "b", "") -> Name("G", "#", "")
                 [] root = Name("B", "b", "") -> Name("A", "#", "")
                 [] OTHER -> root
  IN IndexOf(NOTES, sharp)

RootOf(name) == parseChordName(name).root
QualityOf(name) == parseChordName(name).quality

\* The same chord up to the enharmonic spelling of its root.
SameChord(c1, c2) ==
  /\ c1 # <<>> /\ c2 # <<>>
  /\ QualityOf(c1) = QualityOf(c2)
  /\ PitchClassOf(RootOf(c1)) = PitchClassOf(RootOf(c2))

IsMinor(key) == key \in MinorKeys
TonicOf(key) == RootOf(key)

\* The diatonic numerals of a key: those of its table, and for a minor key the
\* harmonic-minor V.
DiatonicRomans(key) ==
  IF IsMinor(key)
  THEN {MINOR_KEYS_DIATONIC[1][2][i][1] : i \in 1..Len(MINOR_KEYS_DIATONIC[1][2])}
         \cup {Chars("V")}
  ELSE {MAJOR_KEYS_DIATONIC[1][2][i][1] : i \in 1..Len(MAJOR_KEYS_DIATONIC[1][2])}

\* c shifted chromatically by the interval from the tonic of k1 to that of k2.
IsChromaticShift(out, c, k1, k2) ==
  /\ out # <<>>
  /\ QualityOf(out) = QualityOf(c)
  /\ PitchClassOf(RootOf(out)) =
       (PitchClassOf(RootOf(c)) + PitchClassOf(TonicOf(k2))
          + 12 - PitchClassOf(TonicOf(k1))) % 12

\* ------------------------------------------------------------------------
\* Properties of the harmonic analyser
\* ------------------------------------------------------------------------

\* C5: for each of the 24 keys K and every diatonic numeral r of K (the
\* harmonic-minor V of a minor key included),
\* findFunctionOfChord(realizeRomanNumeral(r, K), K) = r.
C5_FunctionOfRealisedNumeral ==
  (trace = <<"realize", "find">> /\ args.roman \in DiatonicRomans(args.key))
    => heldRoman = args.roman

C5_Witness ==
  /\ trace = <<"realize", "find">>
  /\ args.key = Name("A", "", "m")
  /\ args.roman = Chars("V")
  /\ heldChord = Name("E", "", "")
  /\ heldRoman = Chars("V")

\* C6 as stated: whenever findFunctionOfChord(c, K) returns a numeral r,
\* realizeRomanNumeral(r, K) is c itself: same quality, and same root up to
\* enharmonic spelling.
C6_RealisedFunctionIsTheChord ==
  (trace = <<"find", "realize">> /\ heldRoman # <<>>)
    => SameChord(heldChord, args.chord)

\* C6 as amended: whenever findFunctionOfChord(c, K) returns a numeral r,
\* realizeRomanNumeral(r, K) has the root of c, spelled as in c, and the
\* quality of c, except that a dominant seventh c recognised as the V of a
\* minor key or as a secondary dominant V/x is realised as the major triad
\* on its root.
C6_RealisedFunctionKeepsRoot ==
  (trace = <<"find", "realize">> /\ heldRoman # <<>>)
    => /\ heldChord # <<>>
       /\ RootOf(heldChord) = RootOf(args.chord)
       /\ \/ QualityOf(heldChord) = QualityOf(args.chord)
          \/ /\ QualityOf(args.chord) = Chars("7")
             /\ QualityOf(heldChord) = Chars("")
             /\ \/ IsMinor(args.key) /\ heldRoman = Chars("V")
                \/ ~IsMinor(args.key) /\ StartsWith(heldRoman, Chars("V/"))

C6_Witness ==
  /\ trace = <<"find", "realize">>
  /\ args.key = Name("C", "", "")
  /\ args.chord = Name("D", "", "7")
  /\ heldRoman = Chars("V/V")
  /\ heldChord = Name("D", "", "")

\* The minor key on the tonic of a major key.
ParallelMinorOf(key) ==
  CHOOSE m \in MinorKeys : PitchClassOf(TonicOf(m)) = PitchClassOf(TonicOf(key))

\* C10: in every supported major key K realizeRomanNumeral returns a chord for
\* each non-diatonic numeral of the major successor table: for V/x the major
\* triad rooted 7 semitones above the root of K's diatonic chord x, for iv
\* and flat-VII the iv and VII chords of K's parallel minor.
C10_NonDiatonicNumeralsRealised ==
  (trace = <<"realize">> /\ ~IsMinor(args.key))
    => /\ StartsWith(args.roman, Chars("V/")) =>
            /\ heldChord # <<>>
            /\ QualityOf(heldChord) = Chars("")
            /\ PitchClassOf(RootOf(heldChord)) =
                 (PitchClassOf(RootOf(Lookup(Lookup(MAJOR_KEYS_DIATONIC, args.key),
                                             SplitSlash1(args.roman)))) + 7) % 12
       /\ args.roman = Chars("iv") =>
            SameChord(heldChord,
                      Lookup(Lookup(MINOR_KEYS_DIATONIC, ParallelMinorOf(args.key)), Chars("iv")))
       /\ args.roman = Chars("flatVII") =>
            SameChord(heldChord,
                      Lookup(Lookup(MINOR_KEYS_DIATONIC, ParallelMinorOf(args.key)), Chars("VII")))

\* ------------------------------------------------------------------------
\* Properties of the transposer
\* ------------------------------------------------------------------------

\* C7: between two keys of the same mode transposeChordSequence returns a
\* sequence of the same length in which each chord keeps its quality and has
\* its root shifted by (new tonic - old tonic) mod 12, for flat-spelled as for
\* sharp-spelled tonics and roots.
C7_SameModeIsChromaticShift ==
  (trace = <<"transpose">> /\ IsMinor(args.key) = IsMinor(args.newKey))
    => /\ Len(transposed) = Len(args.sequence)
       /\ \A i \in 1..Len(args.sequence) :
            IsChromaticShift(transposed[i], args.sequence[i], args.key, args.newKey)

\* The cross-mode table: <<major numeral, minor numeral>>.
CrossModeTable ==
  {<<Chars("I"), Chars("i")>>, <<Chars("ii"), Chars("ii")>>, <<Chars("iii"), Chars("III")>>,
   <<Chars("IV"), Chars("iv")>>, <<Chars("V"), Chars("V")>>, <<Chars("vi"), Chars("VI")>>,
   <<Chars("vii"), Chars("VII")>>}

HasCounterpart(fn, fromMinor) ==
  \E p \in CrossModeTable : fn = (IF fromMinor THEN p[2] ELSE p[1])

CounterpartOf(fn, fromMinor) ==
  LET p == CHOOSE q \in CrossModeTable : fn = (IF fromMinor THEN q[2] ELSE q[1])
  IN IF fromMinor THEN p[1] ELSE p[2]

\* C8: between keys of different modes every chord with a function in the old
\* key becomes the realisation in the new key of the function's counterpart
\* under the cross-mode table, and every chord without a function its
\* chromatic shift; for Am, F, C, G from A minor to C major each output
\* chord's function is the counterpart of the input chord's function.
C8_CrossModeKeepsFunction ==
  (trace = <<"transpose">> /\ IsMinor(args.key) # IsMinor(args.newKey))
    => /\ Len(transposed) = Len(args.sequence)
       /\ \A i \in 1..Len(args.sequence) :
            LET fn == findFunctionOfChord(args.sequence[i], args.key)
            IN /\ HasCounterpart(fn, IsMinor(args.key)) =>
                    transposed[i] =
                      realizeRomanNumeral(CounterpartOf(fn, IsMinor(args.key)), args.newKey)
               /\ fn = <<>> =>
                    IsChromaticShift(transposed[i], args.sequence[i], args.key, args.newKey)
       /\ (args.sequence = S3Sequence /\ args.key = Name("A", "", "m")
             /\ args.newKey = Name("C", "", "")) =>
            \A i \in 1..Len(S3Sequence) :
               findFunctionOfChord(transposed[i], args.newKey) =
                 CounterpartOf(findFunctionOfChord(S3Sequence[i], args.key), TRUE)

\* ------------------------------------------------------------------------
\* Properties of the successor engine
\* ------------------------------------------------------------------------

\* The list the successor engine is to return, from the tables as written:
\* the kept transitions of the chord's function ranked by weight, ties by
\* position in the table; each realised; the unrealisable ones and the repeats
\* left out.
ExpectedProgressions(fromChord, key, allowBorrowed) ==
  LET fn == findFunctionOfChord(fromChord, key)
      table == IF IsMinor(key) THEN PROGRESSION_RULES_MINOR ELSE PROGRESSION_RULES_MAJOR
      ts == Lookup(table, fn)
      kept == {i \in 1..Len(ts) : IsMinor(key) \/ allowBorrowed \/ ~ts[i].isBorrowed}
      Before(j, i) == \/ ts[j].weight > ts[i].weight
                      \/ ts[j].weight = ts[i].weight /\ j < i
      RankOf(i) == Cardinality({j \in kept : Before(j, i)}) + 1
      AtRank(p) == CHOOSE i \in kept : RankOf(i) = p
      cand == [p \in 1..Cardinality(kept) |->
                 IF ts[AtRank(p)].to = fn THEN fromChord
                 ELSE realizeRomanNumeral(ts[AtRank(p)].to, key)]
      shown == {p \in 1..Len(cand) : cand[p] # <<>> /\ \A q \in 1..(p - 1) : cand[q] # cand[p]}
      ShownAt(m) == CHOOSE p \in shown : Cardinality({q \in shown : q < p}) = m - 1
  IN IF fn = <<>> THEN <<>>
     ELSE [m \in 1..Cardinality(shown) |-> cand[ShownAt(m)]]

\* C9: after any sequence of earlier calls getCommonProgressions returns the
\* realisations of the transitions of the chord's function in non-increasing
\* weight order, equal weights in table order, without the borrowed ones when
\* allowBorrowed is false in a major key, a self-loop as the input chord,
\* unrealisable targets dropped, duplicates removed keeping the first, and
\* the empty list for a chord without function; from C in C major without
\* borrowed chords the list starts F, G, Dm, Am and has C after them.
C9_ProgressionsByWeight ==
  trace = <<"suggest">>
    => /\ suggestions = ExpectedProgressions(args.chord, args.key, args.allowBorrowed)
       /\ (args.chord = Name("C", "", "") /\ args.key = Name("C", "", "")
             /\ ~args.allowBorrowed) =>
            /\ Len(suggestions) > 4
            /\ SubSeq(suggestions, 1, 4) =
                 <<Name("F", "", ""), Name("G", "", ""), Name("D", "", "m"), Name("A", "", "m")>>
            /\ \E i \in 5..Len(suggestions) : suggestions[i] = Name("C", "", "")

C9_Witness ==
  /\ trace = <<"suggest">>
  /\ calls >= 2
  /\ rulesMajor # PROGRESSION_RULES_MAJOR
  /\ args.chord = Name("C", "", "") /\ args.key = Name("C", "", "")
  /\ ~args.allowBorrowed
  /\ suggestions = <<Name("F", "", ""), Name("G", "", ""), Name("D", "", "m"),
                     Name("A", "", "m"), Name("D", "", ""), Name("E", "", "m"),
                     Name("B", "", ""), Name("C", "", "")>>

\* ------------------------------------------------------------------------
\* Playback: the audio engine, playSequence and playFullSong
\*
\* The page runs one task at a time.  A click, a timer and the settling of
\* the soundfont download are tasks; the continuation of an await on a
\* promise that is already resolved is a microtask and runs before the next
\* task.  Hence the steps of a session that stands at "run" come before any
\* click or timer.
\* ------------------------------------------------------------------------

MaxNodes == 2

\* How a chord plays: as a block chord, with a strumming pattern, with an
\* arpeggio pattern, or not at all (getVoicingForChord returns no voicing).
Kinds == {"block", "strum", "arpeggio", "silent"}

\* The songs drawn: none, one section, sections with two chords, an empty
\* section.
SongChoices ==
  {<<>>,
   <<<<"block">>>>,
   <<<<"strum", "block">>>>,
   <<<<>>, <<"arpeggio">>>>,
   <<<<"silent">>, <<"block">>>>}

TheoryAtRest ==
  /\ args = NoArgs
  /\ heldChord = <<>>
  /\ heldRoman = <<>>
  /\ trace = <<>>
  /\ transposed = <<>>
  /\ rulesMajor = PROGRESSION_RULES_MAJOR
  /\ rulesMinor = PROGRESSION_RULES_MINOR
  /\ suggestions = <<>>
  /\ calls = 0

InitPlayback ==
  /\ TheoryAtRest
  /\ ToolsAtRest
  /\ savedInstrument \in {"none", "guitar"}
  /\ highlightedNodes \in SeqsUpTo(Kinds, MaxNodes)
  /\ songStructure \in SongChoices
  /\ soundfontDefined \in BOOLEAN
  /\ loopActive = FALSE
  /\ buttons = ButtonsAtRest
  /\ isPlaying = FALSE
  /\ stopPlaybackRequested = FALSE
  /\ isLoopingActive = FALSE
  /\ seqPc = "idle"
  /\ seqCursor = 0
  /\ isSongPlaying = FALSE
  /\ stopSongRequested = FALSE
  /\ songPc = "idle"
  /\ songCursor = <<0, 0>>
  /\ isInitialized = FALSE
  /\ isInitializing = FALSE
  /\ welcomePc = "idle"
  /\ thenCallbacks = {}
  /\ played = {}
  /\ audit = [s \in Sessions |-> NoAudit]
  /\ initCaller = "none"

\* No continuation is due: the page takes the next task.
Quiescent == seqPc # "run" /\ songPc # "run"

\* --- audio (the audio engine singleton) ---

\* audio.init() goes past its first line.
InitStarts == ~isInitialized /\ ~isInitializing

\* The promise audio.init() returns stays pending: it awaits the context and
\* the soundfonts.  Otherwise init has returned at once, or thrown and caught
\* "Soundfont library is not loaded".
InitPends == InitStarts /\ soundfontDefined

\* The record of an attempt by caller: counted, at most to 2.
Attempted(a, caller, failedNow) ==
  IF caller \in Sessions
  THEN [a EXCEPT ![caller].attempts = IF @ < 2 THEN @ + 1 ELSE @,
                 ![caller].failed = @ \/ failedNow]
  ELSE a

\* The record of a failed attempt of caller.
Failed(a, caller) ==
  IF caller \in Sessions THEN [a EXCEPT ![caller].failed = TRUE] ELSE a

\* audio.init() up to its first await, called by caller when the audit is a
\* and the initialisation in flight, if any, was started by starter.
init(caller, a, starter) ==
  /\ isInitialized' = isInitialized
  /\ isInitializing' = (isInitializing \/ InitPends)
  /\ initCaller' = IF InitPends THEN caller ELSE starter
  /\ audit' = IF InitStarts THEN Attempted(a, caller, ~soundfontDefined) ELSE a

\* audio.playChord for the chord at position at of session by.
playChord(by, at) ==
  IF ~isInitialized
  THEN /\ init(by, audit, initCaller)
       /\ thenCallbacks' = IF InitPends THEN thenCallbacks \cup {[by |-> by, at |-> at]}
                                        ELSE thenCallbacks
       /\ played' = played
  ELSE /\ played' = played \cup {[by |-> by, at |-> at]}
       /\ UNCHANGED <<isInitialized, isInitializing, thenCallbacks, audit, initCaller>>

\* audio.playStrummedChord
playStrummedChord(by, at) ==
  /\ played' = IF ~isInitialized THEN played ELSE played \cup {[by |-> by, at |-> at]}
  /\ UNCHANGED <<isInitialized, isInitializing, thenCallbacks, audit, initCaller>>

\* audio.playArpeggiatedChord
playArpeggiatedChord(by, at) ==
  /\ played' = IF ~isInitialized THEN played ELSE played \cup {[by |-> by, at |-> at]}
  /\ UNCHANGED <<isInitialized, isInitializing, thenCallbacks, audit, initCaller>>

\* The body of the chord loops of playSequence and playFullSong for one chord.
PlayNode(by, at, kind) ==
  CASE kind = "arpeggio" -> playArpeggiatedChord(by, at)
    [] kind = "strum"    -> playStrummedChord(by, at)
    [] kind = "block"    -> playChord(by, at)
    [] OTHER             -> UNCHANGED audioVars

\* The chord's await is one on a timer; otherwise the session goes on at once.
AwaitsTimer(kind) ==
  \/ kind = "block"
  \/ kind \in {"strum", "arpeggio"} /\ isInitialized

\* The awaits of audio.init() settle: the soundfonts are loaded, or loading
\* has failed.  init's catch and finally run, then the callbacks and
\* continuations that waited for its promise.
InitSettle ==
  /\ Quiescent
  /\ isInitializing
  /\ \E ok \in BOOLEAN :
       /\ isInitialized' = ok
       /\ played' = IF ok THEN played \cup thenCallbacks ELSE played
       /\ audit' = IF ok THEN audit ELSE Failed(audit, initCaller)
  /\ isInitializing' = FALSE
  /\ thenCallbacks' = {}
  /\ initCaller' = "none"
  /\ songPc' = IF songPc = "init" THEN "run" ELSE songPc
  /\ welcomePc' = "idle"
  /\ savedInstrument' = IF welcomePc = "init" THEN "guitar" ELSE savedInstrument
  /\ UNCHANGED <<highlightedNodes, songStructure, soundfontDefined, loopActive>>
  /\ UNCHANGED <<seqVars, isSongPlaying, stopSongRequested, songCursor, theoryVars, toolVars>>

\* --- app.ts: playSequence ---

\* stopSequence()
stopSequence ==
  stopPlaybackRequested' = (IF isPlaying THEN TRUE ELSE stopPlaybackRequested)

\* playSequence() up to the first pass of its loop.
playSequence ==
  IF isPlaying
  THEN /\ stopSequence
       /\ UNCHANGED <<isPlaying, isLoopingActive, seqPc, seqCursor, buttons, audit, initCaller>>
  ELSE IF savedInstrument = "none"
  THEN UNCHANGED <<seqVars, audit, initCaller>>
  ELSE /\ isPlaying' = TRUE
       /\ stopPlaybackRequested' = FALSE
       /\ buttons' = [play |-> TRUE, stop |-> FALSE, loop |-> TRUE]
       /\ isLoopingActive' = loopActive
       /\ seqPc' = "run"
       /\ seqCursor' = 0
       /\ audit' = [audit EXCEPT !["seq"] = [NoAudit EXCEPT !.cold = ~isInitialized]]
       /\ initCaller' = IF initCaller = "seq" THEN "other" ELSE initCaller

\* A click on the play button, or a call of the exported playSequence.
PlayClick ==
  /\ Quiescent
  /\ playSequence
  /\ UNCHANGED <<pageVars, songVars, isInitialized, isInitializing, thenCallbacks, played>>
  /\ UNCHANGED <<theoryVars, toolVars>>

\* A click on the stop button, or a call of the exported stopSequence.
StopClick ==
  /\ Quiescent
  /\ stopSequence
  /\ UNCHANGED <<isPlaying, isLoopingActive, seqPc, seqCursor, buttons>>
  /\ UNCHANGED <<pageVars, songVars, audioVars, theoryVars, toolVars>>

\* A click on the loop button, which takes no click while disabled.
LoopClick ==
  /\ Quiescent
  /\ ~buttons.loop
  /\ loopActive' = ~loopActive
  /\ UNCHANGED <<savedInstrument, highlightedNodes, songStructure, soundfontDefined, welcomePc>>
  /\ UNCHANGED <<seqVars, songVars, audioVars, theoryVars, toolVars>>

\* playSequence goes on: it takes the next node of the pass, starts the next
\* pass, or leaves through its finally block.
SeqStep ==
  /\ seqPc = "run"
  /\ IF seqCursor < Len(highlightedNodes) /\ ~stopPlaybackRequested
     THEN /\ seqCursor' = seqCursor + 1
          /\ PlayNode("seq", <<0, seqCursor + 1>>, highlightedNodes[seqCursor + 1])
          /\ seqPc' = IF AwaitsTimer(highlightedNodes[seqCursor + 1]) THEN "timer" ELSE "run"
          /\ UNCHANGED <<isPlaying, stopPlaybackRequested, isLoopingActive, buttons>>
     ELSE IF isLoopingActive /\ ~stopPlaybackRequested
     THEN /\ seqCursor' = 0
          /\ UNCHANGED <<isPlaying, stopPlaybackRequested, isLoopingActive, seqPc, buttons>>
          /\ UNCHANGED audioVars
     ELSE /\ isPlaying' = FALSE
          /\ buttons' = ButtonsAtRest
          /\ seqPc' = "idle"
          /\ isLoopingActive' = FALSE
          /\ UNCHANGED <<stopPlaybackRequested, seqCursor>>
          /\ UNCHANGED audioVars
  /\ UNCHANGED <<pageVars, songVars, theoryVars, toolVars>>

\* The timer playSequence awaits fires.
SeqTimer ==
  /\ Quiescent
  /\ seqPc = "timer"
  /\ seqPc' = "run"
  /\ UNCHANGED <<isPlaying, stopPlaybackRequested, isLoopingActive, seqCursor, buttons>>
  /\ UNCHANGED <<pageVars, songVars, audioVars, theoryVars, toolVars>>

\* --- song-arranger.ts: playFullSong ---

\* stopFullSong()
stopFullSong ==
  stopSongRequested' = (IF isSongPlaying THEN TRUE ELSE stopSongRequested)

\* playFullSong() up to its await of audio.init().
playFullSong ==
  IF isSongPlaying
  THEN /\ stopFullSong
       /\ UNCHANGED <<isSongPlaying, songPc, songCursor, audioVars>>
  ELSE IF Len(songStructure) = 0 \/ savedInstrument = "none"
  THEN UNCHANGED <<songVars, audioVars>>
  ELSE /\ isSongPlaying' = TRUE
       /\ stopSongRequested' = FALSE
       /\ init("song", [audit EXCEPT !["song"] = [NoAudit EXCEPT !.cold = ~isInitialized]],
               IF initCaller = "song" THEN "other" ELSE initCaller)
       /\ songPc' = IF InitPends THEN "init" ELSE "run"
       /\ songCursor' = <<0, 0>>
       /\ UNCHANGED <<thenCallbacks, played>>

\* A click on the song's play button.
PlaySongClick ==
  /\ Quiescent
  /\ playFullSong
  /\ UNCHANGED <<pageVars, seqVars, theoryVars, toolVars>>

\* playFullSong goes on: it takes the next chord of the section, enters the
\* next section, or leaves through its finally block.
SongStep ==
  /\ songPc = "run"
  /\ LET section == songCursor[1]
         index   == songCursor[2]
     IN IF section >= 1 /\ index < Len(songStructure[section]) /\ ~stopSongRequested
        THEN /\ songCursor' = <<section, index + 1>>
             /\ PlayNode("song", <<section, index + 1>>, songStructure[section][index + 1])
             /\ songPc' = IF AwaitsTimer(songStructure[section][index + 1]) THEN "timer" ELSE "run"
             /\ UNCHANGED <<isSongPlaying, stopSongRequested>>
        ELSE IF section < Len(songStructure) /\ ~stopSongRequested
        THEN /\ songCursor' = <<section + 1, 0>>
             /\ UNCHANGED <<isSongPlaying, stopSongRequested, songPc, audioVars>>
        ELSE /\ isSongPlaying' = FALSE
             /\ songPc' = "idle"
             /\ UNCHANGED <<stopSongRequested, songCursor, audioVars>>
  /\ UNCHANGED <<pageVars, seqVars, theoryVars, toolVars>>

\* The timer playFullSong awaits fires.
SongTimer ==
  /\ Quiescent
  /\ songPc = "timer"
  /\ songPc' = "run"
  /\ UNCHANGED <<isSongPlaying, stopSongRequested, songCursor>>
  /\ UNCHANGED <<pageVars, seqVars, audioVars, theoryVars, toolVars>>

\* --- index.tsx: the welcome screen ---

\* A click on an instrument of the welcome screen: the handler awaits
\* audio.init() and then loads the instrument's state.
WelcomeClick ==
  /\ Quiescent
  /\ savedInstrument = "none"
  /\ welcomePc = "idle"
  /\ init("ui", audit, initCaller)
  /\ welcomePc' = IF InitPends THEN "init" ELSE "idle"
  /\ savedInstrument' = IF InitPends THEN savedInstrument ELSE "guitar"
  /\ UNCHANGED <<highlightedNodes, songStructure, soundfontDefined, loopActive>>
  /\ UNCHANGED <<thenCallbacks, played, seqVars, songVars, theoryVars, toolVars>>

NextPlayback ==
  \/ StopClick
  \/ PlayClick
  \/ LoopClick
  \/ SeqStep
  \/ SeqTimer
  \/ PlaySongClick
  \/ SongStep
  \/ SongTimer
  \/ WelcomeClick
  \/ InitSettle

SpecPlayback == InitPlayback /\ [][NextPlayback]_vars

\* Continuations run.  A timer that is due and a download that has ended are
\* tasks in the page's queue: the page takes them, however many clicks and
\* continuations come in between, unless a continuation never ends.
SpecPlaybackFair ==
  /\ SpecPlayback
  /\ WF_vars(SeqStep)
  /\ WF_vars(SongStep)
  /\ SF_vars(SeqTimer)
  /\ SF_vars(SongTimer)
  /\ SF_vars(InitSettle)

\* ------------------------------------------------------------------------
\* Properties of playback
\* ------------------------------------------------------------------------

\* In a step taken once a stop of the progression is requested, playSequence
\* takes no further node, and audio scheduled for it is a replay of a chord
\* taken before.
SeqKeepsToChord ==
  (isPlaying /\ stopPlaybackRequested)
    => /\ seqCursor' = seqCursor
       /\ {e \in played' \ played : e.by = "seq"} \subseteq thenCallbacks

SongKeepsToChord ==
  (isSongPlaying /\ stopSongRequested)
    => /\ songCursor' = songCursor
       /\ {e \in played' \ played : e.by = "song"} \subseteq thenCallbacks

\* C1: once a stop is requested while a session (of playSequence or of
\* playFullSong) is running, no audio is scheduled for a chord after the one
\* in progress, and the session returns to idle.
C1_StopEndsSession ==
  /\ [][SeqKeepsToChord /\ SongKeepsToChord]_vars
  /\ (isPlaying /\ stopPlaybackRequested) ~> ~isPlaying
  /\ (isSongPlaying /\ stopSongRequested) ~> ~isSongPlaying

\* C2: at every moment at most one playback session is active, counting
\* playSequence and playFullSong.
C2_AtMostOneSession == ~(isPlaying /\ isSongPlaying)

\* Some chord of the highlighted progression makes playSequence wait on a timer.
PassAwaitsTimer ==
  \E i \in 1..Len(highlightedNodes) : AwaitsTimer(highlightedNodes[i])

\* C3: in a looping session of playSequence, whatever the highlighted
\* progression (empty, or of chords without voicing), a stop request can be
\* delivered: each pass waits on a timer, during which the page takes the
\* click.
C3_StopCanBeDelivered == (isPlaying /\ isLoopingActive) => PassAwaitsTimer

\* In a step taken once an initialisation attempt of a session that started
\* uninitialised has failed, the session takes no further chord and no note
\* is scheduled for it.
SeqAbortsOnFailure ==
  (isPlaying /\ audit["seq"].cold /\ audit["seq"].failed)
    => /\ seqCursor' = seqCursor
       /\ {e \in played' : e.by = "seq"} \subseteq played

SongAbortsOnFailure ==
  (isSongPlaying /\ audit["song"].cold /\ audit["song"].failed)
    => /\ songCursor' = songCursor
       /\ {e \in played' : e.by = "song"} \subseteq played

\* C4: a session that starts with the audio engine uninitialised attempts
\* initialisation once, and if the attempt fails it aborts without walking
\* the remaining chords and no note is scheduled.
C4_FailedInitAborts ==
  /\ [](\A s \in Sessions : audit[s].cold => audit[s].attempts <= 1)
  /\ [][SeqAbortsOnFailure /\ SongAbortsOnFailure]_vars

\* ------------------------------------------------------------------------
\* Seventh chords of the keys
\* ------------------------------------------------------------------------

MAJOR_KEYS_DIATONIC_SEVENTHS ==
  <<
    <<<<"C">>,
      <<<<<<"I">>, <<"C", "m", "a", "j", "7">>>>, <<<<"i", "i">>, <<"D", "m", "7">>>>,
        <<<<"i", "i", "i">>, <<"E", "m", "7">>>>,
        <<<<"I", "V">>, <<"F", "m", "a", "j", "7">>>>, <<<<"V">>, <<"G", "7">>>>,
        <<<<"v", "i">>, <<"A", "m", "7">>>>,
        <<<<"v", "i", "i">>, <<"B", "m", "7", "b", "5">>>>>>>>,
    <<<<"G">>,
      <<<<<<"I">>, <<"G", "m", "a", "j", "7">>>>, <<<<"i", "i">>, <<"A", "m", "7">>>>,
        <<<<"i", "i", "i">>, <<"B", "m", "7">>>>,
        <<<<"I", "V">>, <<"C", "m", "a", "j", "7">>>>, <<<<"V">>, <<"D", "7">>>>,
        <<<<"v", "i">>, <<"E", "m", "7">>>>,
        <<<<"v", "i", "i">>, <<"F", "#", "m", "7", "b", "5">>>>>>>>,
    <<<<"D">>,
      <<<<<<"I">>, <<"D", "m", "a", "j", "7">>>>, <<<<"i", "i">>, <<"E", "m", "7">>>>,
        <<<<"i", "i", "i">>, <<"F", "#", "m", "7">>>>,
        <<<<"I", "V">>, <<"G", "m", "a", "j", "7">>>>, <<<<"V">>, <<"A", "7">>>>,
        <<<<"v", "i">>, <<"B", "m", "7">>>>,
        <<<<"v", "i", "i">>, <<"C", "#", "m", "7", "b", "5">>>>>>>>,
    <<<<"A">>,
      <<<<<<"I">>, <<"A", "m", "a", "j", "7">>>>, <<<<"i", "i">>, <<"B", "m", "7">>>>,
        <<<<"i", "i", "i">>, <<"C", "#", "m", "7">>>>,
        <<<<"I", "V">>, <<"D", "m", "a", "j", "7">>>>, <<<<"V">>, <<"E", "7">>>>,
        <<<<"v", "i">>, <<"F", "#", "m", "7">>>>,
        <<<<"v", "i", "i">>, <<"G", "#", "m", "7", "b", "5">>>>>>>>,
    <<<<"E">>,
      <<<<<<"I">>, <<"E", "m", "a", "j", "7">>>>,
        <<<<"i", "i">>, <<"F", "#", "m", "7">>>>,
        <<<<"i", "i", "i">>, <<"G", "#", "m", "7">>>>,
        <<<<"I", "V">>, <<"A", "m", "a", "j", "7">>>>, <<<<"V">>, <<"B", "7">>>>,
        <<<<"v", "i">>, <<"C", "#", "m", "7">>>>,
        <<<<"v", "i", "i">>, <<"D", "#", "m", "7", "b", "5">>>>>>>>,
    <<<<"B">>,
      <<<<<<"I">>, <<"B", "m", "a", "j", "7">>>>,
        <<<<"i", "i">>, <<"C", "#", "m", "7">>>>,
        <<<<"i", "i", "i">>, <<"D", "#", "m", "7">>>>,
        <<<<"I", "V">>, <<"E", "m", "a", "j", "7">>>>, <<<<"V">>, <<"F", "#", "7">>>>,
        <<<<"v", "i">>, <<"G", "#", "m", "7">>>>,
        <<<<"v", "i", "i">>, <<"A", "#", "m", "7", "b", "5">>>>>>>>,
    <<<<"F", "#">>,
      <<<<<<"I">>, <<"F", "#", "m", "a", "j", "7">>>>,
        <<<<"i", "i">>, <<"G", "#", "m", "7">>>>,
        <<<<"i", "i", "i">>, <<"A", "#", "m", "7">>>>,
        <<<<"I", "V">>, <<"B", "m", "a", "j", "7">>>>, <<<<"V">>, <<"C", "#", "7">>>>,
        <<<<"v", "i">>, <<"D", "#", "m", "7">>>>,
        <<<<"v", "i", "i">>, <<"F", "m", "7", "b", "5">>>>>>>>,
    <<<<"C", "#">>,
      <<<<<<"I">>, <<"C", "#", "m", "a", "j", "7">>>>,
        <<<<"i", "i">>, <<"D", "#", "m", "7">>>>,
        <<<<"i", "i", "i">>, <<"F", "m", "7">>>>,
        <<<<"I", "V">>, <<"F", "#", "m", "a", "j", "7">>>>,
        <<<<"V">>, <<"G", "#", "7">>>>, <<<<"v", "i">>, <<"A", "#", "m", "7">>>>,
        <<<<"v", "i", "i">>, <<"C", "m", "7", "b", "5">>>>>>>>,
    <<<<"A", "b">>,
      <<<<<<"I">>, <<"A", "b", "m", "a", "j", "7">>>>,
        <<<<"i", "i">>, <<"B", "b", "m", "7">>>>,
        <<<<"i", "i", "i">>, <<"C", "m", "7">>>>,
        <<<<"I", "V">>, <<"D", "b", "m", "a", "j", "7">>>>,
        <<<<"V">>, <<"E", "b", "7">>>>, <<<<"v", "i">>, <<"F", "m", "7">>>>,
        <<<<"v", "i", "i">>, <<"G", "m", "7", "b", "5">>>>>>>>,
    <<<<"E", "b">>,
      <<<<<<"I">>, <<"E", "b", "m", "a", "j", "7">>>>,
        <<<<"i", "i">>, <<"F", "m", "7">>>>, <<<<"i", "i", "i">>, <<"G", "m", "7">>>>,
        <<<<"I", "V">>, <<"A", "b", "m", "a", "j", "7">>>>,
        <<<<"V">>, <<"B", "b", "7">>>>, <<<<"v", "i">>, <<"C", "m", "7">>>>,
        <<<<"v", "i", "i">>, <<"D", "m", "7", "b", "5">>>>>>>>,
    <<<<"B", "b">>,
      <<<<<<"I">>, <<"B", "b", "m", "a", "j", "7">>>>,
        <<<<"i", "i">>, <<"C", "m", "7">>>>, <<<<"i", "i", "i">>, <<"D", "m", "7">>>>,
        <<<<"I", "V">>, <<"E", "b", "m", "a", "j", "7">>>>, <<<<"V">>, <<"F", "7">>>>,
        <<<<"v", "i">>, <<"G", "m", "7">>>>,
        <<<<"v", "i", "i">>, <<"A", "m", "7", "b", "5">>>>>>>>,
    <<<<"F">>,
      <<<<<<"I">>, <<"F", "m", "a", "j", "7">>>>, <<<<"i", "i">>, <<"G", "m", "7">>>>,
        <<<<"i", "i", "i">>, <<"A", "m", "7">>>>,
        <<<<"I", "V">>, <<"B", "b", "m", "a", "j", "7">>>>, <<<<"V">>, <<"C", "7">>>>,
        <<<<"v", "i">>, <<"D", "m", "7">>>>,
        <<<<"v", "i", "i">>, <<"E", "m", "7", "b", "5">>>>>>>>
  >>

MINOR_KEYS_DIATONIC_SEVENTHS ==
  <<
    <<<<"A", "m">>,
      <<<<<<"i", "m", "7">>, <<"A", "m", "7">>>>,
        <<<<"i", "i", "m", "7", "b", "5">>, <<"B", "m", "7", "b", "5">>>>,
        <<<<"I", "I", "I", "m", "a", "j", "7">>, <<"C", "m", "a", "j", "7">>>>,
        <<<<"i", "v", "m", "7">>, <<"D", "m", "7">>>>,
        <<<<"v", "m", "7">>, <<"E", "m", "7">>>>, <<<<"V", "7">>, <<"E", "7">>>>,
        <<<<"V", "I", "m", "a", "j", "7">>, <<"F", "m", "a", "j", "7">>>>,
        <<<<"V", "I", "I", "7">>, <<"G", "7">>>>>>>>,
    <<<<"E", "m">>,
      <<<<<<"i", "m", "7">>, <<"E", "m", "7">>>>,
        <<<<"i", "i", "m", "7", "b", "5">>, <<"F", "#", "m", "7", "b", "5">>>>,
        <<<<"I", "I", "I", "m", "a", "j", "7">>, <<"G", "m", "a", "j", "7">>>>,
        <<<<"i", "v", "m", "7">>, <<"A", "m", "7">>>>,
        <<<<"v", "m", "7">>, <<"B", "m", "7">>>>, <<<<"V", "7">>, <<"B", "7">>>>,
        <<<<"V", "I", "m", "a", "j", "7">>, <<"C", "m", "a", "j", "7">>>>,
        <<<<"V", "I", "I", "7">>, <<"D", "7">>>>>>>>,
    <<<<"B", "m">>,
      <<<<<<"i", "m", "7">>, <<"B", "m", "7">>>>,
        <<<<"i", "i", "m", "7", "b", "5">>, <<"C", "#", "m", "7", "b", "5">>>>,
        <<<<"I", "I", "I", "m", "a", "j", "7">>, <<"D", "m", "a", "j", "7">>>>,
        <<<<"i", "v", "m", "7">>, <<"E", "m", "7">>>>,
        <<<<"v", "m", "7">>, <<"F", "#", "m", "7">>>>,
        <<<<"V", "7">>, <<"F", "#", "7">>>>,
        <<<<"V", "I", "m", "a", "j", "7">>, <<"G", "m", "a", "j", "7">>>>,
        <<<<"V", "I", "I", "7">>, <<"A", "7">>>>>>>>,
    <<<<"F", "#", "m">>,
      <<<<<<"i", "m", "7">>, <<"F", "#", "m", "7">>>>,
        <<<<"i", "i", "m", "7", "b", "5">>, <<"G", "#", "m", "7", "b", "5">>>>,
        <<<<"I", "I", "I", "m", "a", "j", "7">>, <<"A", "m", "a", "j", "7">>>>,
        <<<<"i", "v", "m", "7">>, <<"B", "m", "7">>>>,
        <<<<"v", "m", "7">>, <<"C", "#", "m", "7">>>>,
        <<<<"V", "7">>, <<"C", "#", "7">>>>,
        <<<<"V", "I", "m", "a", "j", "7">>, <<"D", "m", "a", "j", "7">>>>,
        <<<<"V", "I", "I", "7">>, <<"E", "7">>>>>>>>,
    <<<<"C", "#", "m">>,
      <<<<<<"i", "m", "7">>, <<"C", "#", "m", "7">>>>,
        <<<<"i", "i", "m", "7", "b", "5">>, <<"D", "#", "m", "7", "b", "5">>>>,
        <<<<"I", "I", "I", "m", "a", "j", "7">>, <<"E", "m", "a", "j", "7">>>>,
        <<<<"i", "v", "m", "7">>, <<"F", "#", "m", "7">>>>,
        <<<<"v", "m", "7">>, <<"G", "#", "m", "7">>>>,
        <<<<"V", "7">>, <<"G", "#", "7">>>>,
        <<<<"V", "I", "m", "a", "j", "7">>, <<"A", "m", "a", "j", "7">>>>,
        <<<<"V", "I", "I", "7">>, <<"B", "7">>>>>>>>,
    <<<<"G", "#", "m">>,
      <<<<<<"i", "m", "7">>, <<"G", "#", "m", "7">>>>,
        <<<<"i", "i", "m", "7", "b", "5">>, <<"A", "#", "m", "7", "b", "5">>>>,
        <<<<"I", "I", "I", "m", "a", "j", "7">>, <<"B", "m", "a", "j", "7">>>>,
        <<<<"i", "v", "m", "7">>, <<"C", "#", "m", "7">>>>,
        <<<<"v", "m", "7">>, <<"D", "#", "m", "7">>>>,
        <<<<"V", "7">>, <<"D", "#", "7">>>>,
        <<<<"V", "I", "m", "a", "j", "7">>, <<"E", "m", "a", "j", "7">>>>,
        <<<<"V", "I", "I", "7">>, <<"F", "#", "7">>>>>>>>,
    <<<<"D", "#", "m">>,
      <<<<<<"i", "m", "7">>, <<"D", "#", "m", "7">>>>,
        <<<<"i", "i", "m", "7", "b", "5">>, <<"F", "m", "7", "b", "5">>>>,
        <<<<"I", "I", "I", "m", "a", "j", "7">>, <<"F", "#", "m", "a", "j", "7">>>>,
        <<<<"i", "v", "m", "7">>, <<"G", "#", "m", "7">>>>,
        <<<<"v", "m", "7">>, <<"A", "#", "m", "7">>>>,
        <<<<"V", "7">>, <<"A", "#", "7">>>>,
        <<<<"V", "I", "m", "a", "j", "7">>, <<"B", "m", "a", "j", "7">>>>,
        <<<<"V", "I", "I", "7">>, <<"C", "#", "7">>>>>>>>,
    <<<<"B", "b", "m">>,
      <<<<<<"i", "m", "7">>, <<"B", "b", "m", "7">>>>,
        <<<<"i", "i", "m", "7", "b", "5">>, <<"C", "m", "7", "b", "5">>>>,
        <<<<"I", "I", "I", "m", "a", "j", "7">>, <<"D", "b", "m", "a", "j", "7">>>>,
        <<<<"i", "v", "m", "7">>, <<"E", "b", "m", "7">>>>,
        <<<<"v", "m", "7">>, <<"F", "m", "7">>>>, <<<<"V", "7">>, <<"F", "7">>>>,
        <<<<"V", "I", "m", "a", "j", "7">>, <<"G", "b", "m", "a", "j", "7">>>>,
        <<<<"V", "I", "I", "7">>, <<"A", "b", "7">>>>>>>>,
    <<<<"F", "m">>,
      <<<<<<"i", "m", "7">>, <<"F", "m", "7">>>>,
        <<<<"i", "i", "m", "7", "b", "5">>, <<"G", "m", "7", "b", "5">>>>,
        <<<<"I", "I", "I", "m", "a", "j", "7">>, <<"A", "b", "m", "a", "j", "7">>>>,
        <<<<"i", "v", "m", "7">>, <<"B", "b", "m", "7">>>>,
        <<<<"v", "m", "7">>, <<"C", "m", "7">>>>, <<<<"V", "7">>, <<"C", "7">>>>,
        <<<<"V", "I", "m", "a", "j", "7">>, <<"D", "b", "m", "a", "j", "7">>>>,
        <<<<"V", "I", "I", "7">>, <<"E", "b", "7">>>>>>>>,
    <<<<"C", "m">>,
      <<<<<<"i", "m", "7">>, <<"C", "m", "7">>>>,
        <<<<"i", "i", "m", "7", "b", "5">>, <<"D", "m", "7", "b", "5">>>>,
        <<<<"I", "I", "I", "m", "a", "j", "7">>, <<"E", "b", "m", "a", "j", "7">>>>,
        <<<<"i", "v", "m", "7">>, <<"F", "m", "7">>>>,
        <<<<"v", "m", "7">>, <<"G", "m", "7">>>>, <<<<"V", "7">>, <<"G", "7">>>>,
        <<<<"V", "I", "m", "a", "j", "7">>, <<"A", "b", "m", "a", "j", "7">>>>,
        <<<<"V", "I", "I", "7">>, <<"B", "b", "7">>>>>>>>,
    <<<<"G", "m">>,
      <<<<<<"i", "m", "7">>, <<"G", "m", "7">>>>,
        <<<<"i", "i", "m", "7", "b", "5">>, <<"A", "m", "7", "b", "5">>>>,
        <<<<"I", "I", "I", "m", "a", "j", "7">>, <<"B", "b", "m", "a", "j", "7">>>>,
        <<<<"i", "v", "m", "7">>, <<"C", "m", "7">>>>,
        <<<<"v", "m", "7">>, <<"D", "m", "7">>>>, <<<<"V", "7">>, <<"D", "7">>>>,
        <<<<"V", "I", "m", "a", "j", "7">>, <<"E", "b", "m", "a", "j", "7">>>>,
        <<<<"V", "I", "I", "7">>, <<"F", "7">>>>>>>>,
    <<<<"D", "m">>,
      <<<<<<"i", "m", "7">>, <<"D", "m", "7">>>>,
        <<<<"i", "i", "m", "7", "b", "5">>, <<"E", "m", "7", "b", "5">>>>,
        <<<<"I", "I", "I", "m", "a", "j", "7">>, <<"F", "m", "a", "j", "7">>>>,
        <<<<"i", "v", "m", "7">>, <<"G", "m", "7">>>>,
        <<<<"v", "m", "7">>, <<"A", "m", "7">>>>, <<<<"V", "7">>, <<"A", "7">>>>,
        <<<<"V", "I", "m", "a", "j", "7">>, <<"B", "b", "m", "a", "j", "7">>>>,
        <<<<"V", "I", "I", "7">>, <<"C", "7">>>>>>>>
  >>

\* The scale degree a label of the seventh-chord tables stands on: 'im7' is
\* on i, 'IIImaj7' on III, 'V7' on V, 'vii' on vii.
RECURSIVE DegreeOf(_)
DegreeOf(label) ==
  IF label = <<>> \/ Head(label) \notin {"I", "V", "i", "v"} THEN <<>>
  ELSE <<Head(label)>> \o DegreeOf(Tail(label))

DiatonicTriadsOf(key) ==
  IF IsMinor(key) THEN Lookup(MINOR_KEYS_DIATONIC, key)
                  ELSE Lookup(MAJOR_KEYS_DIATONIC, key)

DiatonicSeventhsOf(key) ==
  IF IsMinor(key) THEN Lookup(MINOR_KEYS_DIATONIC_SEVENTHS, key)
                  ELSE Lookup(MAJOR_KEYS_DIATONIC_SEVENTHS, key)

TriadsHaveTheirDegree ==
  \A i \in 1..Len(DiatonicTriadsOf(args.key)) :
     DiatonicTriadsOf(args.key)[i][2] = args.chord
       => heldRoman = DiatonicTriadsOf(args.key)[i][1]

SeventhsHaveTheirDegree ==
  \A i \in 1..Len(DiatonicSeventhsOf(args.key)) :
     DiatonicSeventhsOf(args.key)[i][2] = args.chord
       => heldRoman = DegreeOf(DiatonicSeventhsOf(args.key)[i][1])

\* C11: in each of the 24 keys K, findFunctionOfChord maps the diatonic
\* triad and the diatonic seventh chord on every scale degree of K to that
\* degree's Roman numeral.
C11_DiatonicChordsHaveFunction ==
  trace = <<"find">> => (TriadsHaveTheirDegree /\ SeventhsHaveTheirDegree)

\* ------------------------------------------------------------------------
\* Strum patterns: data/rhythms.ts and the rhythm editor of strumming.ts
\* ------------------------------------------------------------------------

\* A duration is a fraction of a measure.  Every duration of rhythms.ts and
\* every 1 / steps of the editor's grids is a whole number of 72nds, so a
\* duration is held as its number of 72nds; the doubles of the program differ
\* from these fractions by less than 1e-15.
Measure == 72

\* Each preset by its id: beatsPerMeasure and the beats as <<type, duration>>.
STRUMMING_PATTERNS ==
  <<
    <<"basic-4-4",
      [beatsPerMeasure |-> 4, beats |-> <<
         <<"down", 18>>, <<"down", 18>>, <<"up", 9>>, <<"up", 9>>, <<"down", 9>>,
         <<"up", 9>>>>]>>,
    <<"folk-pop",
      [beatsPerMeasure |-> 4, beats |-> <<
         <<"down", 9>>, <<"rest", 9>>, <<"down", 9>>, <<"up", 9>>, <<"rest", 9>>,
         <<"up", 9>>, <<"down", 9>>, <<"up", 9>>>>]>>,
    <<"campfire",
      [beatsPerMeasure |-> 4, beats |-> <<
         <<"down", 18>>, <<"down", 9>>, <<"up", 9>>, <<"rest", 9>>, <<"up", 9>>,
         <<"down", 9>>, <<"up", 9>>>>]>>,
    <<"four-on-floor",
      [beatsPerMeasure |-> 4, beats |-> <<
         <<"down", 18>>, <<"down", 18>>, <<"down", 18>>, <<"down", 18>>>>]>>,
    <<"simple-8ths",
      [beatsPerMeasure |-> 4, beats |-> <<
         <<"down", 9>>, <<"up", 9>>, <<"down", 9>>, <<"up", 9>>, <<"down", 9>>,
         <<"up", 9>>, <<"down", 9>>, <<"up", 9>>>>]>>,
    <<"island-strum",
      [beatsPerMeasure |-> 4, beats |-> <<
         <<"down", 9>>, <<"rest", 9>>, <<"down", 9>>, <<"up", 9>>, <<"rest", 9>>,
         <<"up", 9>>, <<"down", 9>>, <<"rest", 9>>>>]>>,
    <<"syncopated-pop",
      [beatsPerMeasure |-> 4, beats |-> <<
         <<"down", 9>>, <<"rest", 9>>, <<"rest", 9>>, <<"up", 9>>, <<"rest", 9>>,
         <<"up", 9>>, <<"down", 9>>, <<"rest", 9>>>>]>>,
    <<"simple-cut",
      [beatsPerMeasure |-> 2, beats |-> <<
         <<"down", 36>>, <<"down", 36>>>>]>>,
    <<"march-cut",
      [beatsPerMeasure |-> 2, beats |-> <<
         <<"down", 36>>, <<"down", 18>>, <<"up", 18>>>>]>>,
    <<"driving-cut",
      [beatsPerMeasure |-> 2, beats |-> <<
         <<"down", 18>>, <<"up", 18>>, <<"down", 18>>, <<"up", 18>>>>]>>,
    <<"syncopated-march",
      [beatsPerMeasure |-> 2, beats |-> <<
         <<"down", 18>>, <<"rest", 18>>, <<"up", 18>>, <<"down", 18>>>>]>>,
    <<"alla-breve-pulse",
      [beatsPerMeasure |-> 2, beats |-> <<
         <<"down", 18>>, <<"up", 18>>, <<"rest", 18>>, <<"up", 18>>>>]>>,
    <<"polka-strum",
      [beatsPerMeasure |-> 2, beats |-> <<
         <<"down", 18>>, <<"up", 18>>, <<"down", 18>>, <<"up", 18>>>>]>>,
    <<"simple-2-4",
      [beatsPerMeasure |-> 2, beats |-> <<
         <<"down", 36>>, <<"down", 36>>>>]>>,
    <<"march-2-4",
      [beatsPerMeasure |-> 2, beats |-> <<
         <<"down", 36>>, <<"down", 18>>, <<"up", 18>>>>]>>,
    <<"latin-2-4",
      [beatsPerMeasure |-> 2, beats |-> <<
         <<"down", 18>>, <<"rest", 18>>, <<"up", 18>>, <<"down", 18>>>>]>>,
    <<"bouncy-2-4",
      [beatsPerMeasure |-> 2, beats |-> <<
         <<"down", 18>>, <<"rest", 18>>, <<"down", 18>>, <<"up", 18>>>>]>>,
    <<"waltz-3-4",
      [beatsPerMeasure |-> 3, beats |-> <<
         <<"down", 24>>, <<"down", 12>>, <<"up", 12>>, <<"down", 12>>, <<"up", 12>>>>]>>,
    <<"classic-waltz",
      [beatsPerMeasure |-> 3, beats |-> <<
         <<"down", 24>>, <<"down", 24>>, <<"down", 24>>>>]>>,
    <<"folk-waltz",
      [beatsPerMeasure |-> 3, beats |-> <<
         <<"down", 24>>, <<"down", 12>>, <<"up", 12>>, <<"down", 12>>, <<"up", 12>>>>]>>,
    <<"country-ballad-3-4",
      [beatsPerMeasure |-> 3, beats |-> <<
         <<"down", 12>>, <<"rest", 12>>, <<"down", 12>>, <<"up", 12>>,
         <<"rest", 12>>, <<"up", 12>>>>]>>,
    <<"mazurka-3-4",
      [beatsPerMeasure |-> 3, beats |-> <<
         <<"down", 12>>, <<"rest", 12>>, <<"down", 12>>, <<"rest", 12>>,
         <<"down", 12>>, <<"rest", 12>>>>]>>,
    <<"simple-3-8",
      [beatsPerMeasure |-> 3, beats |-> <<
         <<"down", 24>>, <<"down", 24>>, <<"down", 24>>>>]>>,
    <<"quick-3-8",
      [beatsPerMeasure |-> 3, beats |-> <<
         <<"down", 24>>, <<"up", 24>>, <<"down", 24>>>>]>>,
    <<"accented-3-8",
      [beatsPerMeasure |-> 3, beats |-> <<
         <<"down", 24>>, <<"rest", 24>>, <<"down", 24>>>>]>>,
    <<"running-3-8",
      [beatsPerMeasure |-> 3, beats |-> <<
         <<"down", 12>>, <<"up", 12>>, <<"down", 12>>, <<"up", 12>>, <<"down", 12>>,
         <<"up", 12>>>>]>>,
    <<"gallop-3-8",
      [beatsPerMeasure |-> 3, beats |-> <<
         <<"down", 24>>, <<"down", 12>>, <<"up", 12>>>>]>>,
    <<"slow-ballad-6-8",
      [beatsPerMeasure |-> 6, beats |-> <<
         <<"down", 12>>, <<"rest", 12>>, <<"rest", 12>>, <<"down", 12>>,
         <<"rest", 12>>, <<"rest", 12>>>>]>>,
    <<"jig-6-8",
      [beatsPerMeasure |-> 6, beats |-> <<
         <<"down", 12>>, <<"rest", 12>>, <<"down", 12>>, <<"down", 12>>,
         <<"rest", 12>>, <<"down", 12>>>>]>>,
    <<"folk-6-8",
      [beatsPerMeasure |-> 6, beats |-> <<
         <<"down", 24>>, <<"down", 24>>, <<"down", 12>>, <<"up", 12>>>>]>>,
    <<"simple-6-8",
      [beatsPerMeasure |-> 6, beats |-> <<
         <<"down", 36>>, <<"down", 36>>>>]>>,
    <<"running-6-8",
      [beatsPerMeasure |-> 6, beats |-> <<
         <<"down", 12>>, <<"up", 12>>, <<"down", 12>>, <<"up", 12>>, <<"down", 12>>,
         <<"up", 12>>>>]>>,
    <<"slip-jig-9-8",
      [beatsPerMeasure |-> 9, beats |-> <<
         <<"down", 8>>, <<"rest", 8>>, <<"rest", 8>>, <<"down", 8>>, <<"rest", 8>>,
         <<"rest", 8>>, <<"down", 8>>, <<"rest", 8>>, <<"rest", 8>>>>]>>,
    <<"simple-9-8",
      [beatsPerMeasure |-> 9, beats |-> <<
         <<"down", 24>>, <<"down", 24>>, <<"down", 24>>>>]>>,
    <<"lyrical-9-8",
      [beatsPerMeasure |-> 9, beats |-> <<
         <<"down", 8>>, <<"down", 8>>, <<"up", 8>>, <<"down", 8>>, <<"down", 8>>,
         <<"up", 8>>, <<"down", 8>>, <<"down", 8>>, <<"up", 8>>>>]>>,
    <<"running-9-8",
      [beatsPerMeasure |-> 9, beats |-> <<
         <<"down", 8>>, <<"up", 8>>, <<"down", 8>>, <<"up", 8>>, <<"down", 8>>,
         <<"up", 8>>, <<"down", 8>>, <<"up", 8>>, <<"down", 8>>>>]>>,
    <<"valkyrie-9-8",
      [beatsPerMeasure |-> 9, beats |-> <<
         <<"down", 16>>, <<"up", 8>>, <<"down", 16>>, <<"up", 8>>, <<"down", 16>>,
         <<"up", 8>>>>]>>,
    <<"blues-shuffle-12-8",
      [beatsPerMeasure |-> 12, beats |-> <<
         <<"down", 12>>, <<"up", 6>>, <<"down", 12>>, <<"up", 6>>, <<"down", 12>>,
         <<"up", 6>>, <<"down", 12>>, <<"up", 6>>>>]>>,
    <<"simple-12-8",
      [beatsPerMeasure |-> 12, beats |-> <<
         <<"down", 18>>, <<"down", 18>>, <<"down", 18>>, <<"down", 18>>>>]>>,
    <<"slow-rock-12-8",
      [beatsPerMeasure |-> 12, beats |-> <<
         <<"down", 6>>, <<"rest", 6>>, <<"rest", 6>>, <<"down", 6>>, <<"rest", 6>>,
         <<"rest", 6>>, <<"down", 6>>, <<"rest", 6>>, <<"rest", 6>>, <<"down", 6>>,
         <<"rest", 6>>, <<"rest", 6>>>>]>>,
    <<"running-12-8",
      [beatsPerMeasure |-> 12, beats |-> <<
         <<"down", 6>>, <<"up", 6>>, <<"down", 6>>, <<"up", 6>>, <<"down", 6>>,
         <<"up", 6>>, <<"down", 6>>, <<"up", 6>>, <<"down", 6>>, <<"up", 6>>,
         <<"down", 6>>, <<"up", 6>>>>]>>,
    <<"doo-wop-12-8",
      [beatsPerMeasure |-> 12, beats |-> <<
         <<"down", 6>>, <<"rest", 6>>, <<"rest", 6>>, <<"rest", 6>>, <<"rest", 6>>,
         <<"rest", 6>>, <<"down", 6>>, <<"rest", 6>>, <<"rest", 6>>, <<"rest", 6>>,
         <<"rest", 6>>, <<"rest", 6>>>>]>>
  >>
\* data/rhythms.ts: ARPEGGIO_PATTERNS.  noteOrder lists string indexes; an empty
\* noteOrder marks a scalable pattern.
ARPEGGIO_PATTERNS ==
  <<
    <<"asc-44",
      [name |-> <<"A", "s", "c", "e", "n", "d", "i", "n", "g">>,
       beatsPerMeasure |-> 4, noteOrder |-> <<>>]>>,
    <<"desc-44",
      [name |-> <<"D", "e", "s", "c", "e", "n", "d", "i", "n", "g">>,
       beatsPerMeasure |-> 4, noteOrder |-> <<>>]>>,
    <<"up-down",
      [name |-> <<"U", "p", " ", "&", " ", "D", "o", "w", "n">>,
       beatsPerMeasure |-> 4, noteOrder |-> <<5, 4, 3, 2, 1, 0, 1, 2>>]>>,
    <<"alternating-bass",
      [name |-> <<"A", "l", "t", "e", "r", "n", "a", "t", "i", "n", "g", " ", "B", "a", "s", "s">>,
       beatsPerMeasure |-> 4, noteOrder |-> <<5, 2, 1, 4, 2, 1>>]>>,
    <<"melodic-contour",
      [name |-> <<"M", "e", "l", "o", "d", "i", "c", " ", "C", "o", "n", "t", "o", "u", "r">>,
       beatsPerMeasure |-> 4, noteOrder |-> <<5, 2, 0, 1, 2, 0>>]>>,
    <<"forward-roll",
      [name |-> <<"F", "o", "r", "w", "a", "r", "d", " ", "R", "o", "l", "l">>,
       beatsPerMeasure |-> 4, noteOrder |-> <<5, 2, 0, 5, 2, 0, 5, 2>>]>>,
    <<"pachelbels-canon",
      [name |-> <<"P", "a", "c", "h", "e", "l", "b", "e", "l", "'", "s", " ", "C", "a", "n", "o", "n">>,
       beatsPerMeasure |-> 4, noteOrder |-> <<5, 4, 3, 2, 1, 0, 1, 2, 5, 4, 3, 2, 1, 0, 1, 2>>]>>,
    <<"asc-22",
      [name |-> <<"A", "s", "c", "e", "n", "d", "i", "n", "g", " ", "(", "2", "/", "2", ")">>,
       beatsPerMeasure |-> 2, noteOrder |-> <<>>]>>,
    <<"desc-22",
      [name |-> <<"D", "e", "s", "c", "e", "n", "d", "i", "n", "g", " ", "(", "2", "/", "2", ")">>,
       beatsPerMeasure |-> 2, noteOrder |-> <<>>]>>,
    <<"cut-outside-in",
      [name |-> <<"O", "u", "t", "s", "i", "d", "e", "-", "I", "n">>,
       beatsPerMeasure |-> 2, noteOrder |-> <<5, 0, 4, 1>>]>>,
    <<"cut-inside-out",
      [name |-> <<"I", "n", "s", "i", "d", "e", "-", "O", "u", "t">>,
       beatsPerMeasure |-> 2, noteOrder |-> <<2, 3, 1, 4>>]>>,
    <<"cut-bass-chord",
      [name |-> <<"B", "a", "s", "s", " ", "&", " ", "C", "h", "o", "r", "d">>,
       beatsPerMeasure |-> 2, noteOrder |-> <<5, 2, 1, 0>>]>>,
    <<"asc-24",
      [name |-> <<"A", "s", "c", "e", "n", "d", "i", "n", "g", " ", "(", "2", "/", "4", ")">>,
       beatsPerMeasure |-> 2, noteOrder |-> <<>>]>>,
    <<"desc-24",
      [name |-> <<"D", "e", "s", "c", "e", "n", "d", "i", "n", "g", " ", "(", "2", "/", "4", ")">>,
       beatsPerMeasure |-> 2, noteOrder |-> <<>>]>>,
    <<"polka-bass-24",
      [name |-> <<"P", "o", "l", "k", "a", " ", "B", "a", "s", "s">>,
       beatsPerMeasure |-> 2, noteOrder |-> <<5, 2, 4, 2>>]>>,
    <<"alternating-24",
      [name |-> <<"A", "l", "t", "e", "r", "n", "a", "t", "i", "n", "g">>,
       beatsPerMeasure |-> 2, noteOrder |-> <<5, 3, 4, 2>>]>>,
    <<"simple-24",
      [name |-> <<"S", "i", "m", "p", "l", "e", " ", "A", "r", "p">>,
       beatsPerMeasure |-> 2, noteOrder |-> <<5, 3, 2, 1>>]>>,
    <<"asc-34",
      [name |-> <<"A", "s", "c", "e", "n", "d", "i", "n", "g", " ", "(", "3", "/", "4", ")">>,
       beatsPerMeasure |-> 3, noteOrder |-> <<>>]>>,
    <<"desc-34",
      [name |-> <<"D", "e", "s", "c", "e", "n", "d", "i", "n", "g", " ", "(", "3", "/", "4", ")">>,
       beatsPerMeasure |-> 3, noteOrder |-> <<>>]>>,
    <<"waltz-arpeggio",
      [name |-> <<"C", "l", "a", "s", "s", "i", "c", " ", "W", "a", "l", "t", "z">>,
       beatsPerMeasure |-> 3, noteOrder |-> <<5, 2, 1>>]>>,
    <<"pima-waltz-34",
      [name |-> <<"P", "I", "M", "A", " ", "W", "a", "l", "t", "z">>,
       beatsPerMeasure |-> 3, noteOrder |-> <<5, 2, 1, 0, 1, 2>>]>>,
    <<"travis-waltz-34",
      [name |-> <<"T", "r", "a", "v", "i", "s", " ", "W", "a", "l", "t", "z">>,
       beatsPerMeasure |-> 3, noteOrder |-> <<5, 1, 4, 2, 5, 1>>]>>,
    <<"asc-38",
      [name |-> <<"A", "s", "c", "e", "n", "d", "i", "n", "g", " ", "(", "3", "/", "8", ")">>,
       beatsPerMeasure |-> 3, noteOrder |-> <<5, 3, 1>>]>>,
    <<"desc-38",
      [name |-> <<"D", "e", "s", "c", "e", "n", "d", "i", "n", "g", " ", "(", "3", "/", "8", ")">>,
       beatsPerMeasure |-> 3, noteOrder |-> <<0, 2, 4>>]>>,
    <<"outside-in-38",
      [name |-> <<"O", "u", "t", "s", "i", "d", "e", "-", "I", "n">>,
       beatsPerMeasure |-> 3, noteOrder |-> <<5, 0, 4>>]>>,
    <<"pim-38",
      [name |-> <<"P", "-", "I", "-", "M">>,
       beatsPerMeasure |-> 3, noteOrder |-> <<5, 2, 1>>]>>,
    <<"broken-38",
      [name |-> <<"B", "r", "o", "k", "e", "n", " ", "C", "h", "o", "r", "d">>,
       beatsPerMeasure |-> 3, noteOrder |-> <<5, 1, 5>>]>>,
    <<"asc-68",
      [name |-> <<"A", "s", "c", "e", "n", "d", "i", "n", "g", " ", "(", "6", "/", "8", ")">>,
       beatsPerMeasure |-> 6, noteOrder |-> <<>>]>>,
    <<"desc-68",
      [name |-> <<"D", "e", "s", "c", "e", "n", "d", "i", "n", "g", " ", "(", "6", "/", "8", ")">>,
       beatsPerMeasure |-> 6, noteOrder |-> <<>>]>>,
    <<"pima-68",
      [name |-> <<"P", "I", "M", "A", " ", "R", "o", "l", "l">>,
       beatsPerMeasure |-> 6, noteOrder |-> <<5, 2, 1, 0, 1, 2>>]>>,
    <<"rolling-68",
      [name |-> <<"R", "o", "l", "l", "i", "n", "g">>,
       beatsPerMeasure |-> 6, noteOrder |-> <<5, 2, 1, 5, 2, 1>>]>>,
    <<"thumb-fingers-68",
      [name |-> <<"T", "h", "u", "m", "b", " ", "&", " ", "F", "i", "n", "g", "e", "r", "s">>,
       beatsPerMeasure |-> 6, noteOrder |-> <<5, 2, 1, 4, 2, 1>>]>>,
    <<"asc-98",
      [name |-> <<"A", "s", "c", "e", "n", "d", "i", "n", "g", " ", "(", "9", "/", "8", ")">>,
       beatsPerMeasure |-> 9, noteOrder |-> <<>>]>>,
    <<"desc-98",
      [name |-> <<"D", "e", "s", "c", "e", "n", "d", "i", "n", "g", " ", "(", "9", "/", "8", ")">>,
       beatsPerMeasure |-> 9, noteOrder |-> <<>>]>>,
    <<"groups-of-3-98",
      [name |-> <<"G", "r", "o", "u", "p", "s", " ", "o", "f", " ", "3">>,
       beatsPerMeasure |-> 9, noteOrder |-> <<5, 2, 1, 5, 2, 1, 5, 2, 1>>]>>,
    <<"cascade-98",
      [name |-> <<"C", "a", "s", "c", "a", "d", "e">>,
       beatsPerMeasure |-> 9, noteOrder |-> <<5, 4, 3, 2, 1, 0, 1, 2, 3>>]>>,
    <<"broken-groups-98",
      [name |-> <<"B", "r", "o", "k", "e", "n", " ", "G", "r", "o", "u", "p", "s">>,
       beatsPerMeasure |-> 9, noteOrder |-> <<5, 2, 1, 4, 2, 1, 5, 2, 1>>]>>,
    <<"asc-128",
      [name |-> <<"A", "s", "c", "e", "n", "d", "i", "n", "g", " ", "(", "1", "2", "/", "8", ")">>,
       beatsPerMeasure |-> 12, noteOrder |-> <<>>]>>,
    <<"desc-128",
      [name |-> <<"D", "e", "s", "c", "e", "n", "d", "i", "n", "g", " ", "(", "1", "2", "/", "8", ")">>,
       beatsPerMeasure |-> 12, noteOrder |-> <<>>]>>,
    <<"shuffle-arp-128",
      [name |-> <<"S", "h", "u", "f", "f", "l", "e", " ", "A", "r", "p">>,
       beatsPerMeasure |-> 12, noteOrder |-> <<5, 2, 1, 5, 2, 1, 4, 2, 1, 4, 2, 1>>]>>,
    <<"groups-of-3-128",
      [name |-> <<"G", "r", "o", "u", "p", "s", " ", "o", "f", " ", "3">>,
       beatsPerMeasure |-> 12, noteOrder |-> <<5, 2, 1, 5, 2, 1, 4, 2, 1, 4, 2, 1>>]>>,
    <<"slow-cascade-128",
      [name |-> <<"S", "l", "o", "w", " ", "C", "a", "s", "c", "a", "d", "e">>,
       beatsPerMeasure |-> 12, noteOrder |-> <<5, 4, 3, 2, 1, 0, 5, 4, 3, 2, 1, 0>>]>>>>


MaxClicks == 2
MaxCustom == 1

TimeSignatures == {"4/4", "2/2", "2/4", "3/4", "3/8", "6/8", "9/8", "12/8"}

\* The switch of renderRhythmGrid.
StepsOf(timeSignature) ==
  CASE timeSignature = "2/2"  -> 4
    [] timeSignature = "2/4"  -> 4
    [] timeSignature = "3/4"  -> 6
    [] timeSignature = "3/8"  -> 3
    [] timeSignature = "6/8"  -> 6
    [] timeSignature = "9/8"  -> 9
    [] timeSignature = "12/8" -> 12
    [] OTHER                  -> 8

\* renderRhythmGrid for the type 'strum': the grid it leaves.
renderRhythmGrid(timeSignature, grid) ==
  IF Len(grid) # StepsOf(timeSignature)
  THEN [i \in 1..StepsOf(timeSignature) |-> "rest"]
  ELSE grid

\* `custom_pattern_${Date.now()}`: the id of the n-th pattern saved.
CustomId(n) ==
  CASE n = 1 -> "custom_pattern_1"
    [] n = 2 -> "custom_pattern_2"
    [] n = 3 -> "custom_pattern_3"

\* id.startsWith('custom_pattern_')
IsCustomId(id) == id \in {CustomId(1), CustomId(2), CustomId(3)}

convertGridToStrumPattern(patternData) ==
  LET steps == Len(patternData.grid)
      durationPerStep == Measure \div steps
  IN [beatsPerMeasure |-> IF patternData.timeSignature = "3/4" THEN 3
                          ELSE IF patternData.timeSignature = "6/8" THEN 6 ELSE 4,
      beats |-> [i \in 1..steps |-> <<patternData.grid[i], durationPerStep>>]]

\* getPatternById, an instrument being saved: a custom strum pattern, a
\* strum preset, an arpeggio preset, or null (<<>>).
getPatternById(id) ==
  IF IsCustomId(id)
  THEN IF \E i \in 1..Len(customPatterns) : customPatterns[i].id = id
       THEN convertGridToStrumPattern(
              customPatterns[CHOOSE i \in 1..Len(customPatterns) :
                               customPatterns[i].id = id])
       ELSE <<>>
  ELSE IF Lookup(STRUMMING_PATTERNS, id) # <<>>
  THEN Lookup(STRUMMING_PATTERNS, id)
  ELSE Lookup(ARPEGGIO_PATTERNS, id)

PresetIds == {STRUMMING_PATTERNS[i][1] : i \in 1..Len(STRUMMING_PATTERNS)}

InitPatterns ==
  /\ TheoryAtRest
  /\ savedInstrument = "guitar"
  /\ SessionsAtRest
  /\ ToolsAtRest

\* openRhythmEditor('strum') for a new pattern, or for the saved pattern id.
OpenRhythmEditor ==
  /\ pattern = <<>>
  /\ ~editorOpen
  /\ savedInstrument # "none"
  /\ \E id \in {""} \cup {customPatterns[i].id : i \in 1..Len(customPatterns)} :
        /\ editingPatternId' = id
        /\ IF id = ""
           THEN /\ editorTimeSignature' = "4/4"
                /\ editorStrumGrid' = renderRhythmGrid("4/4", <<>>)
           ELSE LET patternToEdit == customPatterns[CHOOSE i \in 1..Len(customPatterns) :
                                                      customPatterns[i].id = id]
                IN /\ editorTimeSignature' = patternToEdit.timeSignature
                   /\ editorStrumGrid' = renderRhythmGrid(patternToEdit.timeSignature,
                                                          patternToEdit.grid)
  /\ editorOpen' = TRUE
  /\ UNCHANGED <<customPatterns, pattern, gridClicks>>
  /\ UNCHANGED <<theoryVars, playbackVars, catalogVars, exportVars, appVars>>

\* The change listener of the time signature select.
SelectTimeSignature ==
  /\ pattern = <<>>
  /\ editorOpen
  /\ \E timeSignature \in TimeSignatures \ {editorTimeSignature} :
        /\ editorTimeSignature' = timeSignature
        /\ editorStrumGrid' = renderRhythmGrid(timeSignature, editorStrumGrid)
  /\ UNCHANGED <<editorOpen, editingPatternId, customPatterns, pattern, gridClicks>>
  /\ UNCHANGED <<theoryVars, playbackVars, catalogVars, exportVars, appVars>>

\* handleGridClick on a cell of the strum grid.
GridClick ==
  /\ pattern = <<>>
  /\ editorOpen
  /\ gridClicks < MaxClicks
  /\ \E index \in 1..Len(editorStrumGrid) :
        editorStrumGrid' =
          [editorStrumGrid EXCEPT ![index] =
             CASE editorStrumGrid[index] = "rest" -> "down"
               [] editorStrumGrid[index] = "down" -> "up"
               [] OTHER                           -> "rest"]
  /\ gridClicks' = gridClicks + 1
  /\ UNCHANGED <<editorOpen, editingPatternId, editorTimeSignature, customPatterns, pattern>>
  /\ UNCHANGED <<theoryVars, playbackVars, catalogVars, exportVars, appVars>>

\* handleSavePattern(isSaveAs) with a name typed in: saveCustomPattern, then
\* closeRhythmEditor.
SavePattern ==
  /\ pattern = <<>>
  /\ editorOpen
  /\ savedInstrument # "none"
  /\ \E isSaveAs \in BOOLEAN :
        LET patternData == [timeSignature |-> editorTimeSignature, grid |-> editorStrumGrid]
        IN IF ~isSaveAs /\ editingPatternId # ""
           THEN customPatterns' =
                  [i \in 1..Len(customPatterns) |->
                     IF customPatterns[i].id = editingPatternId
                     THEN [id |-> editingPatternId,
                           timeSignature |-> patternData.timeSignature,
                           grid |-> patternData.grid]
                     ELSE customPatterns[i]]
           ELSE /\ Len(customPatterns) < MaxCustom
                /\ customPatterns' =
                     Append(customPatterns,
                            [id |-> CustomId(Len(customPatterns) + 1),
                             timeSignature |-> patternData.timeSignature,
                             grid |-> patternData.grid])
  /\ editingPatternId' = ""
  /\ editorOpen' = FALSE
  /\ UNCHANGED <<editorTimeSignature, editorStrumGrid, pattern, gridClicks>>
  /\ UNCHANGED <<theoryVars, playbackVars, catalogVars, exportVars, appVars>>

\* The cancel button.
closeRhythmEditor ==
  /\ pattern = <<>>
  /\ editorOpen
  /\ editingPatternId' = ""
  /\ editorOpen' = FALSE
  /\ UNCHANGED <<editorTimeSignature, editorStrumGrid, customPatterns, pattern, gridClicks>>
  /\ UNCHANGED <<theoryVars, playbackVars, catalogVars, exportVars, appVars>>

\* A caller (playback, export, the pattern lists) fetches a strum pattern by
\* the id of a preset or of a saved custom pattern.  A run is followed up to
\* its first fetch; the editor's modal is closed then.
GetPatternById ==
  /\ pattern = <<>>
  /\ ~editorOpen
  /\ savedInstrument # "none"
  /\ \E id \in PresetIds \cup {customPatterns[i].id : i \in 1..Len(customPatterns)} :
        pattern' = getPatternById(id)
  /\ UNCHANGED <<editorOpen, editingPatternId, editorTimeSignature, editorStrumGrid,
                 customPatterns, gridClicks>>
  /\ UNCHANGED <<theoryVars, playbackVars, catalogVars, exportVars, appVars>>

NextPatterns ==
  \/ OpenRhythmEditor
  \/ SelectTimeSignature
  \/ GridClick
  \/ SavePattern
  \/ closeRhythmEditor
  \/ GetPatternById

SpecPatterns == InitPatterns /\ [][NextPatterns]_vars

\* ------------------------------------------------------------------------
\* Properties of the strum patterns
\* ------------------------------------------------------------------------

RECURSIVE SumOfDurations(_)
SumOfDurations(beats) ==
  IF beats = <<>> THEN 0 ELSE beats[1][2] + SumOfDurations(Tail(beats))

\* C12: the beat durations of every strum pattern getPatternById returns, a
\* preset or a custom pattern converted from an editor grid, sum to one
\* measure.
C12_BeatsFillTheMeasure ==
  pattern # <<>> => SumOfDurations(pattern.beats) = Measure


\* ------------------------------------------------------------------------
\* Voicings: data/tunings, data/chords, harmonics.getVoicingForChord
\* ------------------------------------------------------------------------

\* data/tunings: the open strings from the top of the diagram to the bottom,
\* string index 0 first.
GUITAR_TUNING ==
  <<<<"E", "4">>, <<"B", "3">>, <<"G", "3">>, <<"D", "3">>, <<"A", "2">>, <<"E", "2">>>>

UKULELE_TUNING == <<<<"A", "4">>, <<"E", "4">>, <<"C", "4">>, <<"G", "4">>>>

\* The fret 'x' of a muted string (type Fret = number | 'x').
Muted == -1

DecimalDigits == <<"0", "1", "2", "3", "4", "5", "6", "7", "8", "9">>

IsDigit(c) == \E d \in 1..Len(DecimalDigits) : DecimalDigits[d] = c

\* parseInt(s, 10) of a string of digits.
RECURSIVE parseInt(_)
parseInt(s) ==
  IF s = <<>> THEN 0
  ELSE 10 * parseInt(DropLast(s)) + IndexOf(DecimalDigits, s[Len(s)])

\* String(n) of a whole number n >= 0.
RECURSIVE DecimalOf(_)
DecimalOf(n) ==
  IF n < 10 THEN <<DecimalDigits[n + 1]>>
  ELSE DecimalOf(n \div 10) \o <<DecimalDigits[(n % 10) + 1]>>

\* The longest run of digits of s that starts at position i.
RECURSIVE DigitsAt(_, _)
DigitsAt(s, i) ==
  IF i > Len(s) \/ ~IsDigit(s[i]) THEN <<>> ELSE <<s[i]>> \o DigitsAt(s, i + 1)

\* The match of /([A-G][#b]?)(\d+)/ that starts at position i of note.
NoteMatchAt(note, i) ==
  IF i > Len(note) \/ note[i] \notin {"A", "B", "C", "D", "E", "F", "G"}
  THEN [matched |-> FALSE, noteName |-> <<>>, digits |-> <<>>]
  ELSE IF i + 1 <= Len(note) /\ note[i + 1] \in {"#", "b"} /\ DigitsAt(note, i + 2) # <<>>
  THEN [matched |-> TRUE, noteName |-> <<note[i], note[i + 1]>>, digits |-> DigitsAt(note, i + 2)]
  ELSE IF DigitsAt(note, i + 1) # <<>>
  THEN [matched |-> TRUE, noteName |-> <<note[i]>>, digits |-> DigitsAt(note, i + 1)]
  ELSE [matched |-> FALSE, noteName |-> <<>>, digits |-> <<>>]

\* harmonics.noteToMidi: -1 when the note has no match or its name is not
\* one of NOTES (a flat name is not).
noteToMidi(note) ==
  IF \A i \in 1..Len(note) : ~NoteMatchAt(note, i).matched THEN -1
  ELSE LET first == CHOOSE i \in 1..Len(note) :
                      /\ NoteMatchAt(note, i).matched
                      /\ \A j \in 1..(i - 1) : ~NoteMatchAt(note, j).matched
           match == NoteMatchAt(note, first)
           noteIndex == IndexOf(NOTES, match.noteName)
       IN IF noteIndex = -1 THEN -1
          ELSE 12 * (parseInt(match.digits) + 1) + noteIndex

\* harmonics.midiToNote
midiToNote(midiNumber) ==
  NOTES[(midiNumber % 12) + 1] \o DecimalOf((midiNumber \div 12) - 1)

\* harmonics.getNoteFromFret
getNoteFromFret(openStringNote, fret) ==
  IF noteToMidi(openStringNote) = -1 THEN <<>>
  ELSE midiToNote(noteToMidi(openStringNote) + fret)

\* A voicing of the catalogue.
Frets(frets) == [frets |-> frets]

\* data/chords is not among the sources.  Two catalogues are drawn: one of
\* well-formed voicings (the C and Dm of the guitar are the ones of the
\* specification's scenarios S6 and S5, read from the top string down; the
\* Am of the ukulele sounds A4 on its first and on its fourth string, the
\* second Am of the guitar mutes the top string), and
\* one with the faults the validator looks for: the C of S6 with its B
\* string at fret 2, a voicing of five frets, a voicing with every string
\* muted, a quality the validator does not analyse, a chord without
\* voicings.
SoundCatalogue ==
  [guitar |->
     <<<<Name("C", "", ""),  <<Frets(<<0, 1, 0, 2, 3, Muted>>), Frets(<<3, 5, 5, 5, 3, Muted>>)>>>>,
       <<Name("A", "", "m"), <<Frets(<<0, 1, 2, 2, 0, Muted>>), Frets(<<Muted, 5, 5, 7, 7, 5>>)>>>>,
       <<Name("D", "", "m"), <<Frets(<<1, 3, 2, 0, Muted, Muted>>)>>>>>>,
   ukulele |->
     <<<<Name("C", "", ""),  <<Frets(<<3, 0, 0, 0>>)>>>>,
       <<Name("A", "", "m"), <<Frets(<<0, 0, 0, 2>>)>>>>>>]

FaultyCatalogue ==
  [guitar |->
     <<<<Name("C", "", ""),  <<Frets(<<0, 2, 0, 2, 3, Muted>>), Frets(<<0, 1, 0, 2, 3>>)>>>>,
       <<Name("A", "", "m"), <<Frets(<<Muted, Muted, Muted, Muted, Muted, Muted>>), Frets(<<0, 1, 2, 2, 0, Muted>>)>>>>,
       <<Name("D", "", "m"), <<>>>>,
       <<Name("C", "", "sus4"), <<Frets(<<1, 1, 0, 3, 3, Muted>>)>>>>>>,
   ukulele |->
     <<<<Name("C", "", ""),  <<Frets(<<3, 0, 0>>)>>>>,
       <<Name("A", "", "m"), <<Frets(<<0, 0, 0, 2>>), Frets(<<0, 0, 0, 0>>)>>>>>>]

Catalogues == {SoundCatalogue, FaultyCatalogue}

\* The chords asked for; Em is in neither catalogue.
ChordNames ==
  {Name("C", "", ""), Name("A", "", "m"), Name("D", "", "m"), Name("E", "", "m"),
   Name("C", "", "sus4")}

Instruments == {"guitar", "ukulele"}

\* The largest voicing index asked for.
MaxVoicingIndex == 2

TuningOf(instrument) == IF instrument = "guitar" THEN GUITAR_TUNING ELSE UKULELE_TUNING

\* fretting.map(...).filter(v => v !== null) of getVoicingForChord: the
\* strings of fretting that are not muted, string index 0 first.
NotesOfFretting(fretting, tuning) ==
  LET sounded == {i \in 1..Len(fretting) : fretting[i] # Muted}
      \* the position in fretting of the n-th sounded string
      nth(n) == CHOOSE i \in sounded : Cardinality({j \in sounded : j < i}) = n - 1
  IN [n \in 1..Cardinality(sounded) |->
        [note |-> getNoteFromFret(tuning[nth(n)], fretting[nth(n)]),
         stringIndex |-> nth(n) - 1]]

\* The same with the string index taken for the fret's position among the
\* sounded strings.
getVoicingForChord_CountSounded(chordName, instrument, voicingIndex) ==
  LET allVoicings == Lookup(IF instrument = "guitar" THEN chordDB.guitar ELSE chordDB.ukulele,
                            chordName)
      voicingData == IF voicingIndex + 1 \in 1..Len(allVoicings)
                     THEN allVoicings[voicingIndex + 1] ELSE allVoicings[1]
      voiced == NotesOfFretting(voicingData.frets, TuningOf(instrument))
  IN IF allVoicings = <<>> THEN <<>>
     ELSE [n \in 1..Len(voiced) |-> [note |-> voiced[n].note, stringIndex |-> n - 1]]

\* harmonics.getVoicingForChord.  allVoicings[voicingIndex] || allVoicings[0];
\* every voicing of the catalogue has frets.
getVoicingForChord(chordName, instrument, voicingIndex) ==
  LET allVoicings == Lookup(IF instrument = "guitar" THEN chordDB.guitar ELSE chordDB.ukulele,
                            chordName)
      voicingData == IF voicingIndex + 1 \in 1..Len(allVoicings)
                     THEN allVoicings[voicingIndex + 1] ELSE allVoicings[1]
  IN IF allVoicings = <<>> THEN <<>>
     ELSE NotesOfFretting(voicingData.frets, TuningOf(instrument))

InitCatalog ==
  /\ TheoryAtRest
  /\ PlaybackAtRest
  /\ RhythmAtRest
  /\ ExportAtRest
  /\ AppAtRest
  /\ chordDB \in Catalogues
  /\ voicingCall = <<>>
  /\ validatorRan = FALSE
  /\ issues = NoCatalogue

\* A caller (the diagram, playback, export) asks for a voicing; validated
\* tells whether the validator had run by then.
GetVoicingForChord ==
  /\ \E chordName \in ChordNames, instrument \in Instruments, voicingIndex \in 0..MaxVoicingIndex :
        voicingCall' = [chordName |-> chordName, instrument |-> instrument,
                        voicingIndex |-> voicingIndex, validated |-> validatorRan,
                        voicing |-> getVoicingForChord(chordName, instrument, voicingIndex)]
  /\ UNCHANGED <<chordDB, validatorRan, issues>>
  /\ UNCHANGED <<theoryVars, playbackVars, rhythmVars, exportVars, appVars>>

\* ------------------------------------------------------------------------
\* chord-validator.ts and harmonics.runChordVoicingValidator
\* ------------------------------------------------------------------------

\* PC: the pitch class of a number.
PC(n) == ((n % 12) + 12) % 12

\* midiOf for a note with an octave, /^([A-G]#?)(-?\d+)$/ (the open strings).
midiOf(note) ==
  (parseInt(NoteMatchAt(note, 1).digits) + 1) * 12 + IndexOf(NOTES, NoteMatchAt(note, 1).noteName)

tuningToPcs(tuning) == [i \in 1..Len(tuning) |-> PC(midiOf(tuning[i]))]

\* The CHORD_INTERVALS of chord-validator.ts.
VALIDATOR_CHORD_INTERVALS ==
  <<<<Chars(""), <<0, 4, 7>>>>,
    <<Chars("maj7"), <<0, 4, 7, 11>>>>,
    <<Chars("m"), <<0, 3, 7>>>>,
    <<Chars("m7"), <<0, 3, 7, 10>>>>,
    <<Chars("7"), <<0, 4, 7, 10>>>>,
    <<Chars("m7b5"), <<0, 3, 6, 10>>>>,
    <<Chars("dim"), <<0, 3, 6>>>>>>

\* noteToPc: the flat names are replaced by the sharp ones.
noteToPc(name) ==
  IndexOf(NOTES,
          CASE name = <<"D", "b">> -> <<"C", "#">>
            [] name = <<"E", "b">> -> <<"D", "#">>
            [] name = <<"G", "b">> -> <<"F", "#">>
            [] name = <<"A", "b">> -> <<"G", "#">>
            [] name = <<"B", "b">> -> <<"A", "#">>
            [] OTHER -> name)

\* parseRoot: /^(A#|Bb|C#|Db|D#|Eb|F#|Gb|G#|Ab|[A-G])(.*)$/ and the
\* normalisation of the quality; thrown holds the Error's message.
parseRoot(symbol) ==
  LET twoLetterRoots ==
        {<<"A", "#">>, <<"B", "b">>, <<"C", "#">>, <<"D", "b">>, <<"D", "#">>,
         <<"E", "b">>, <<"F", "#">>, <<"G", "b">>, <<"G", "#">>, <<"A", "b">>}
      rootLen == IF Len(symbol) >= 2 /\ SubSeq(symbol, 1, 2) \in twoLetterRoots THEN 2 ELSE 1
      root == SubSeq(symbol, 1, rootLen)
      qual == SubSeq(symbol, rootLen + 1, Len(symbol))
      Supported(q) == [thrown |-> <<>>, rootPc |-> noteToPc(root), quality |-> q]
  IN IF symbol = <<>> \/ symbol[1] \notin {"A", "B", "C", "D", "E", "F", "G"}
     THEN [thrown |-> <<"Bad chord symbol ", symbol>>, rootPc |-> -1, quality |-> <<>>]
     ELSE IF qual = <<>> THEN Supported(Chars(""))
     ELSE IF StartsWith(qual, Chars("maj7")) THEN Supported(Chars("maj7"))
     ELSE IF StartsWith(qual, Chars("m7b5")) THEN Supported(Chars("m7b5"))
     ELSE IF StartsWith(qual, Chars("m7")) THEN Supported(Chars("m7"))
     ELSE IF qual = Chars("m") THEN Supported(Chars("m"))
     ELSE IF qual = Chars("7") THEN Supported(Chars("7"))
     ELSE IF qual = Chars("dim") THEN Supported(Chars("dim"))
     ELSE [thrown |-> <<"Unsupported quality: ", qual, " in ", symbol>>,
           rootPc |-> noteToPc(root), quality |-> <<>>]

\* [...expectedSet(rootPc, quality)]: the chord's pitch classes in the order
\* of its intervals.
expectedSet(rootPc, quality) ==
  LET intervals == Lookup(VALIDATOR_CHORD_INTERVALS, quality)
  IN Unique([i \in 1..Len(intervals) |-> PC(rootPc + intervals[i])])

\* voicingToPcs: thrown is the message of the string-count Error, pcs the
\* pitch classes of the strings that are not muted.
voicingToPcs(voicing, openPcs) ==
  IF Len(voicing.frets) # Len(openPcs)
  THEN [thrown |-> <<"String count mismatch: frets=", DecimalOf(Len(voicing.frets)),
                     ", tuning=", DecimalOf(Len(openPcs))>>,
        pcs |-> <<>>]
  ELSE [thrown |-> <<>>,
        pcs |-> LET sounded == {i \in 1..Len(openPcs) : voicing.frets[i] # Muted}
                    nth(n) == CHOOSE i \in sounded : Cardinality({j \in sounded : j < i}) = n - 1
                IN [n \in 1..Cardinality(sounded) |-> PC(openPcs[nth(n)] + voicing.frets[nth(n)])]]

\* arr.filter(p => !other.includes(p))
RECURSIVE Without(_, _)
Without(arr, other) ==
  IF arr = <<>> THEN <<>>
  ELSE IF \E i \in 1..Len(other) : other[i] = arr[Len(arr)]
  THEN Without(DropLast(arr), other)
  ELSE Append(Without(DropLast(arr), other), arr[Len(arr)])

\* pcs.map(x => NOTES[x]).join(',')
RECURSIVE JoinNotes(_)
JoinNotes(pcs) ==
  IF pcs = <<>> THEN <<>>
  ELSE IF Len(pcs) = 1 THEN NOTES[pcs[1] + 1]
  ELSE JoinNotes(DropLast(pcs)) \o <<",">> \o NOTES[pcs[Len(pcs)] + 1]

\* The problems that validateCatalog finds in one voicing; a problem is the
\* literal part of its text followed by the joined note names.  The mutant
\* below takes the sounded pitch classes for wanted when they are a chord
\* tone's neighbour a semitone above.
ProblemsOf_SemitoneTolerant(want, voicing, openPcs) ==
  LET heard == voicingToPcs(voicing, openPcs)
      unique == Unique(heard.pcs)
      missing == Without(want, unique)
      extraneous == Without(unique, want \o [i \in 1..Len(want) |-> PC(want[i] + 1)])
  IN IF heard.thrown # <<>> THEN <<heard.thrown>>
     ELSE (IF missing # <<>> THEN <<<<"missing: ", JoinNotes(missing)>>>> ELSE <<>>)
          \o (IF extraneous # <<>> THEN <<<<"non-chord tones: ", JoinNotes(extraneous)>>>> ELSE <<>>)
          \o (IF heard.pcs = <<>> THEN <<<<"all strings muted">>>> ELSE <<>>)

ProblemsOf(want, voicing, openPcs) ==
  LET heard == voicingToPcs(voicing, openPcs)
      unique == Unique(heard.pcs)
      missing == Without(want, unique)
      extraneous == Without(unique, want)
  IN IF heard.thrown # <<>> THEN <<heard.thrown>>
     ELSE (IF missing # <<>> THEN <<<<"missing: ", JoinNotes(missing)>>>> ELSE <<>>)
          \o (IF extraneous # <<>> THEN <<<<"non-chord tones: ", JoinNotes(extraneous)>>>> ELSE <<>>)
          \o (IF heard.pcs = <<>> THEN <<<<"all strings muted">>>> ELSE <<>>)

\* voicings.forEach of validateCatalog: the issues of the first n voicings
\* of a symbol.
RECURSIVE IssuesOfVoicings(_, _, _, _, _)
IssuesOfVoicings(symbol, want, voicings, openPcs, n) ==
  IF n = 0 THEN <<>>
  ELSE The({before \o (IF prob # <<>>
                       THEN <<[symbol |-> symbol, index |-> n - 1, problems |-> prob]>>
                       ELSE <<>>) :
              before \in {IssuesOfVoicings(symbol, want, voicings, openPcs, n - 1)},
              prob \in {ProblemsOf(want, voicings[n], openPcs)}})

\* The issues of one entry of the catalogue.
IssuesOfEntry(symbol, voicings, openPcs) ==
  IF parseRoot(symbol).thrown # <<>>
  THEN <<[symbol |-> symbol, index |-> -1, problems |-> <<parseRoot(symbol).thrown>>]>>
  ELSE IssuesOfVoicings(symbol, expectedSet(parseRoot(symbol).rootPc, parseRoot(symbol).quality),
                        voicings, openPcs, Len(voicings))

\* for (const [symbol, voicings] of Object.entries(chords)): the issues of
\* the first n entries.
RECURSIVE IssuesOfEntries(_, _, _)
IssuesOfEntries(chords, openPcs, n) ==
  IF n = 0 THEN <<>>
  ELSE The({before \o IssuesOfEntry(chords[n][1], chords[n][2], openPcs) :
              before \in {IssuesOfEntries(chords, openPcs, n - 1)}})

validateCatalog(label, chords) ==
  IssuesOfEntries(chords,
                  IF label = "guitar" THEN tuningToPcs(GUITAR_TUNING)
                  ELSE tuningToPcs(UKULELE_TUNING),
                  Len(chords))

\* chords without the voicings that issues names (a whole entry for the
\* index -1).
WithoutFlagged(chords, found) ==
  [n \in 1..Len(chords) |->
     <<chords[n][1],
       IF \E i \in 1..Len(found) : found[i].symbol = chords[n][1] /\ found[i].index = -1
       THEN <<>>
       ELSE LET kept == {k \in 1..Len(chords[n][2]) :
                           \A i \in 1..Len(found) :
                              ~(found[i].symbol = chords[n][1] /\ found[i].index = k - 1)}
                nth(m) == CHOOSE k \in kept : Cardinality({j \in kept : j < k}) = m - 1
            IN [m \in 1..Cardinality(kept) |-> chords[n][2][nth(m)]]>>]

\* The validator run as a filter of the catalogues.
RunChordVoicingValidator_DropFlagged ==
  /\ ~validatorRan
  /\ validatorRan' = TRUE
  /\ issues' = [guitar |-> validateCatalog("guitar", chordDB.guitar),
                ukulele |-> validateCatalog("ukulele", chordDB.ukulele)]
  /\ chordDB' = [guitar |-> WithoutFlagged(chordDB.guitar, issues'.guitar),
                 ukulele |-> WithoutFlagged(chordDB.ukulele, issues'.ukulele)]
  /\ UNCHANGED voicingCall
  /\ UNCHANGED <<theoryVars, playbackVars, rhythmVars, exportVars, appVars>>

\* harmonics.runChordVoicingValidator: both catalogues are validated and
\* the issues logged; chordDB is left as it is.
RunChordVoicingValidator ==
  /\ ~validatorRan
  /\ validatorRan' = TRUE
  /\ issues' = [guitar |-> validateCatalog("guitar", chordDB.guitar),
                ukulele |-> validateCatalog("ukulele", chordDB.ukulele)]
  /\ UNCHANGED <<chordDB, voicingCall>>
  /\ UNCHANGED <<theoryVars, playbackVars, rhythmVars, exportVars, appVars>>

NextCatalog == GetVoicingForChord \/ RunChordVoicingValidator

SpecCatalog == InitCatalog /\ [][NextCatalog]_vars

\* ------------------------------------------------------------------------
\* Properties of the voicings and of the catalogue validator
\* ------------------------------------------------------------------------

\* The fret list getVoicingForChord is to read for a call: the one at the
\* index asked for, the first one when the chord has none at that index.
SelectedFrets(call) ==
  LET allVoicings == Lookup(chordDB[call.instrument], call.chordName)
  IN IF call.voicingIndex + 1 \in 1..Len(allVoicings)
     THEN allVoicings[call.voicingIndex + 1].frets
     ELSE allVoicings[1].frets

\* C18: getVoicingForChord(chord, instrument, i) returns one {note,
\* stringIndex} entry per string of the selected voicing that is not muted,
\* by increasing string index, the note being the open string raised by the
\* fret; the first voicing is selected when i is outside the chord's list,
\* and a chord without voicings yields the empty list.
C18_VoicingOfSelectedFrets ==
  voicingCall # <<>> =>
    LET voicing == voicingCall.voicing
        tuning == TuningOf(voicingCall.instrument)
    IN IF Lookup(chordDB[voicingCall.instrument], voicingCall.chordName) = <<>>
       THEN voicing = <<>>
       ELSE /\ Len(voicing) = Cardinality({i \in 1..Len(SelectedFrets(voicingCall)) :
                                             SelectedFrets(voicingCall)[i] # Muted})
            /\ \A n \in 1..Len(voicing) :
                 /\ voicing[n].stringIndex + 1 \in 1..Len(SelectedFrets(voicingCall))
                 /\ SelectedFrets(voicingCall)[voicing[n].stringIndex + 1] # Muted
                 /\ noteToMidi(voicing[n].note)
                      = noteToMidi(tuning[voicing[n].stringIndex + 1])
                          + SelectedFrets(voicingCall)[voicing[n].stringIndex + 1]
            /\ \A n \in 1..Len(voicing), m \in 1..Len(voicing) :
                 n < m => voicing[n].stringIndex < voicing[m].stringIndex

\* A voicing index outside the list of Am on the guitar of the sound
\* catalogue: its first voicing, of five sounded strings.
C18_Witness_OutOfRange ==
  /\ voicingCall # <<>>
  /\ chordDB = SoundCatalogue
  /\ voicingCall.chordName = Name("A", "", "m")
  /\ voicingCall.instrument = "guitar"
  /\ voicingCall.voicingIndex = 2
  /\ Len(voicingCall.voicing) = 5

\* The problems validateCatalog reported for the voicing at index of symbol,
\* none when it raised no issue for it.
ReportedFor(instrument, symbol, index) ==
  LET found == {i \in 1..Len(issues[instrument]) :
                  /\ issues[instrument][i].symbol = symbol
                  /\ issues[instrument][i].index = index}
  IN IF found = {} THEN <<>> ELSE issues[instrument][CHOOSE i \in found : TRUE].problems

\* The names between the commas of a joined list.
RECURSIVE SplitComma(_)
SplitComma(joined) ==
  IF joined = <<>> THEN {}
  ELSE IF \A i \in 1..Len(joined) : joined[i] # ","
  THEN {joined}
  ELSE LET comma == CHOOSE i \in 1..Len(joined) :
                      joined[i] = "," /\ \A j \in 1..(i - 1) : joined[j] # ","
       IN {SubSeq(joined, 1, comma - 1)} \cup SplitComma(SubSeq(joined, comma + 1, Len(joined)))

\* The note names a list of problems gives under a heading.
Listed(problems, heading) ==
  IF \E i \in 1..Len(problems) : problems[i][1] = heading
  THEN SplitComma(problems[CHOOSE i \in 1..Len(problems) : problems[i][1] = heading][2])
  ELSE {}

\* The pitch classes a fret list sounds on a tuning.
SoundedPcs(frets, tuning) ==
  {PC(noteToMidi(tuning[i]) + frets[i]) : i \in {j \in 1..Len(frets) : frets[j] # Muted}}

\* The pitch classes of the chord of a symbol the validator analyses.
ChordTones(symbol) ==
  LET intervals == Lookup(VALIDATOR_CHORD_INTERVALS, parseRoot(symbol).quality)
  IN {PC(parseRoot(symbol).rootPc + intervals[i]) : i \in 1..Len(intervals)}

\* The pairs the validator analyses: the symbol has one of the validator's
\* qualities and the voicing a fret for every string.
Analysed(instrument, entry, index) ==
  /\ parseRoot(entry[1]).thrown = <<>>
  /\ Len(entry[2][index].frets) = Len(TuningOf(instrument))

\* C19: once the validator has run, for every pair it analyses the notes
\* reported missing are the chord tones that the voicing does not sound,
\* the notes reported as non-chord tones are the sounded pitch classes
\* outside the chord, and a voicing with neither raises no issue.  The C of
\* the guitar with the frets x,3,2,0,1,0 (from the sixth string to the first)
\* raises no issue; with its second string, the B string, at fret 2 it raises
\* the one problem "non-chord tones: C#".
C19_ValidatorReportsMissingAndExtra ==
  validatorRan =>
    /\ \A instrument \in Instruments :
         \A n \in 1..Len(chordDB[instrument]) :
           \A index \in 1..Len(chordDB[instrument][n][2]) :
             Analysed(instrument, chordDB[instrument][n], index) =>
               LET symbol == chordDB[instrument][n][1]
                   sounded == SoundedPcs(chordDB[instrument][n][2][index].frets,
                                         TuningOf(instrument))
                   problems == ReportedFor(instrument, symbol, index - 1)
               IN /\ Listed(problems, "missing: ")
                       = {NOTES[p + 1] : p \in ChordTones(symbol) \ sounded}
                  /\ Listed(problems, "non-chord tones: ")
                       = {NOTES[p + 1] : p \in sounded \ ChordTones(symbol)}
                  /\ sounded = ChordTones(symbol) => problems = <<>>
    /\ chordDB = SoundCatalogue => ReportedFor("guitar", Name("C", "", ""), 0) = <<>>
    /\ chordDB = FaultyCatalogue =>
         ReportedFor("guitar", Name("C", "", ""), 0)
           = <<<<"non-chord tones: ", Name("C", "#", "")>>>>

\* The validator has run over the catalogue that holds the C of the guitar
\* with its B string at fret 2, and has reported it.
C19_Witness_MutatedC ==
  /\ validatorRan
  /\ chordDB.guitar[1][2][1].frets = <<0, 2, 0, 2, 3, Muted>>
  /\ ReportedFor("guitar", Name("C", "", ""), 0) # <<>>

\* The index of the voicing getVoicingForChord reads for a call.
SelectedIndex(call) ==
  IF call.voicingIndex + 1 \in 1..Len(Lookup(chordDB[call.instrument], call.chordName))
  THEN call.voicingIndex ELSE 0

\* The call was made after the validator's run and returned the notes of a
\* voicing the validator had flagged.
FlaggedReturned ==
  /\ voicingCall # <<>>
  /\ voicingCall.validated
  /\ voicingCall.voicing # <<>>
  /\ \E i \in 1..Len(issues[voicingCall.instrument]) :
       /\ issues[voicingCall.instrument][i].symbol = voicingCall.chordName
       /\ issues[voicingCall.instrument][i].index \in {-1, SelectedIndex(voicingCall)}

\* C20: after the validator has run, getVoicingForChord never returns a
\* voicing that the validator flagged.
C20_FlaggedVoicingNeverReturned == ~FlaggedReturned

\* C20, amended: the validator's run leaves the catalogues as they were
\* loaded, and a call made after it returns the selected voicing, flagged
\* or not.
C20_FlaggedVoicingStaysSelectable ==
  /\ chordDB \in Catalogues
  /\ (voicingCall # <<>> /\ voicingCall.validated
        /\ Lookup(chordDB[voicingCall.instrument], voicingCall.chordName) # <<>>) =>
       voicingCall.voicing
         = NotesOfFretting(SelectedFrets(voicingCall), TuningOf(voicingCall.instrument))

\* After the validator's run the C of the guitar with five frets, flagged
\* for its string count, is returned.
C20_Witness_FiveFretsReturned ==
  /\ FlaggedReturned
  /\ voicingCall.instrument = "guitar"
  /\ Len(SelectedFrets(voicingCall)) = 5
  /\ Len(voicingCall.voicing) = 5

\* ------------------------------------------------------------------------
\* Patterns of the nodes and the MIDI export: strumming.applyPatternToNode,
\* tree.getEffectivePatternForNode, importexport.handleMidiExportClick,
\* midi.exportProgressionToMidi
\* ------------------------------------------------------------------------

timeDivision == 480
MIDI_NOTE_ON == 144
MIDI_NOTE_OFF == 128
MIDI_VELOCITY == 100

\* getActiveBpm() || 120; the page's tempo is left at its default.
ActiveBpm == 120

NOTE_TO_MIDI_VAL ==
  <<<<Name("C", "", ""), 0>>, <<Name("C", "#", ""), 1>>, <<Name("D", "b", ""), 1>>,
    <<Name("D", "", ""), 2>>, <<Name("D", "#", ""), 3>>, <<Name("E", "b", ""), 3>>,
    <<Name("E", "", ""), 4>>, <<Name("F", "", ""), 5>>, <<Name("F", "#", ""), 6>>,
    <<Name("G", "b", ""), 6>>, <<Name("G", "", ""), 7>>, <<Name("G", "#", ""), 8>>,
    <<Name("A", "b", ""), 8>>, <<Name("A", "", ""), 9>>, <<Name("A", "#", ""), 10>>,
    <<Name("B", "b", ""), 10>>, <<Name("B", "", ""), 11>>>>

\* midi.noteToMidi, /^([A-G][#b]?)([0-9])$/; -1 stands for null.
midiNoteToMidi(note) ==
  LET wellFormed ==
        /\ Len(note) \in {2, 3}
        /\ note[1] \in {"A", "B", "C", "D", "E", "F", "G"}
        /\ Len(note) = 3 => note[2] \in {"#", "b"}
        /\ IsDigit(note[Len(note)])
      noteName == SubSeq(note, 1, Len(note) - 1)
  IN IF ~wellFormed THEN -1
     ELSE IF \A i \in 1..Len(NOTE_TO_MIDI_VAL) : NOTE_TO_MIDI_VAL[i][1] # noteName THEN -1
     ELSE 12 * (parseInt(<<note[Len(note)]>>) + 1) + Lookup(NOTE_TO_MIDI_VAL, noteName)

\* The chords of the highlighted nodes; Em has no voicing in either
\* catalogue.
NodeChords == {Name("C", "", ""), Name("A", "", "m"), Name("E", "", "m")}

\* The patterns offered in the two modals: the entries that clear a node's
\* pattern, two strum presets (one with an up beat, one that ends with a
\* rest) and two arpeggio presets (one scalable, one with a fixed note
\* order).
PatternChoices ==
  {<<"clear-strum", "strum">>, <<"march-cut", "strum">>, <<"mazurka-3-4", "strum">>,
   <<"clear-arpeggio", "arpeggio">>, <<"asc-44", "arpeggio">>, <<"broken-38", "arpeggio">>}

\* A chord node as the tree creates it: no pattern attribute is set.
NewNode(chord) ==
  [chord |-> chord, voicingIndex |-> 0, strumPatternId |-> "", arpeggioPatternId |-> "",
   playbackStyle |-> ""]

InitExport ==
  /\ TheoryAtRest
  /\ SessionsAtRest
  /\ RhythmAtRest
  /\ savedInstrument \in {"none"} \cup Instruments
  /\ chordDB \in Catalogues
  /\ voicingCall = <<>>
  /\ validatorRan = FALSE
  /\ issues = NoCatalogue
  /\ nodes \in {[i \in 1..Len(chords) |-> NewNode(chords[i])] :
                  chords \in SeqsUpTo(NodeChords, MaxNodes) \ {<<>>}}
  /\ midi = <<>>
  /\ AppAtRest

\* strumming.applyPatternToNode
applyPatternToNode(node, patternId, patternType) ==
  [chord |-> node.chord, voicingIndex |-> node.voicingIndex,
   strumPatternId |-> IF patternId \notin {"clear-strum", "clear-arpeggio"} /\ patternType = "strum"
                      THEN patternId ELSE "",
   arpeggioPatternId |-> IF patternId \notin {"clear-strum", "clear-arpeggio"} /\ patternType # "strum"
                         THEN patternId ELSE "",
   playbackStyle |-> IF patternId \in {"clear-strum", "clear-arpeggio"} THEN "block" ELSE ""]

\* tree.getEffectivePatternForNode for the n-th highlighted node, whose
\* parent is the node before it; the first node has no parent.  null is
\* <<>>.
RECURSIVE getEffectivePatternForNode(_)
getEffectivePatternForNode(n) ==
  IF n = 0 THEN [pattern |-> <<>>, isInherited |-> FALSE]
  ELSE IF nodes[n].strumPatternId # ""
  THEN [pattern |-> getPatternById(nodes[n].strumPatternId), isInherited |-> FALSE]
  ELSE IF nodes[n].arpeggioPatternId # ""
  THEN [pattern |-> getPatternById(nodes[n].arpeggioPatternId), isInherited |-> FALSE]
  ELSE IF nodes[n].playbackStyle = "block" THEN [pattern |-> <<>>, isInherited |-> FALSE]
  ELSE IF n > 1 /\ getEffectivePatternForNode(n - 1).pattern # <<>>
  THEN [pattern |-> getEffectivePatternForNode(n - 1).pattern, isInherited |-> TRUE]
  ELSE [pattern |-> <<>>, isInherited |-> FALSE]

\* tree.updateTreeVisualsFromNode, which the tree runs on a patternchange
\* event: the indicators of the node and of its descendants are drawn anew.
updateTreeVisualsFromNode(startNode) ==
  indicator' = [n \in 1..Len(nodes') |->
                  IF n >= startNode THEN getEffectivePatternForNode(n)' ELSE indicator[n]]

\* handleApplyToSingle: the pattern chosen in the modal is applied to the
\* node the modal was opened for.  A run is followed up to its first export
\* and its first return to the welcome screen.
ApplyToSingle ==
  /\ midi = <<>>
  /\ workspaceState = <<>>
  /\ \E n \in 1..Len(nodes), choice \in PatternChoices :
        /\ nodes' = [nodes EXCEPT ![n] = applyPatternToNode(nodes[n], choice[1], choice[2])]
        /\ updateTreeVisualsFromNode(n)
  /\ UNCHANGED <<midi, workspaceState, captured>>
  /\ UNCHANGED <<theoryVars, playbackVars, rhythmVars, catalogVars, besideTree>>

\* handleApplyToAll: the pattern chosen is applied to every highlighted node.
ApplyToAll ==
  /\ midi = <<>>
  /\ workspaceState = <<>>
  /\ \E choice \in PatternChoices :
        nodes' = [n \in 1..Len(nodes) |-> applyPatternToNode(nodes[n], choice[1], choice[2])]
  /\ updateTreeVisualsFromNode(1)
  /\ UNCHANGED <<midi, workspaceState, captured>>
  /\ UNCHANGED <<theoryVars, playbackVars, rhythmVars, catalogVars, besideTree>>

\* The pattern playSequence plays the n-th node with: activeArpeggio,
\* activeStrum, or neither (a block chord).
PlayedPattern(n) ==
  The({[activeStrum |-> IF "beats" \in DOMAIN effectivePattern THEN effectivePattern ELSE <<>>,
        activeArpeggio |-> IF "noteOrder" \in DOMAIN effectivePattern
                           THEN effectivePattern ELSE <<>>] :
         effectivePattern \in {getEffectivePatternForNode(n).pattern}})

\* audio.playStrummedChord: the notes of one beat in the order of their
\* start times.
strumOrder(notes, type) ==
  IF type = "down" THEN [i \in 1..Len(notes) |-> notes[Len(notes) + 1 - i]] ELSE notes

\* s.includes(sub)
Includes(s, sub) ==
  \E i \in 1..(Len(s) - Len(sub) + 1) : SubSeq(s, i, i + Len(sub) - 1) = sub

\* arr.sort((a, b) => a - b) of distinct numbers, and b - a when descending.
SortNumbers(arr, descending) ==
  SortSeq(arr, LAMBDA a, b : IF descending THEN a > b ELSE a < b)

\* Math.round(duration * ticksPerMeasure), the duration in 72nds of a measure.
Round(duration, ticksPerMeasure) == (2 * duration * ticksPerMeasure + Measure) \div (2 * Measure)

\* arrays.flat(), the halves of arrays flattened one after the other.
RECURSIVE Flat(_)
Flat(arrays) ==
  IF arrays = <<>> THEN <<>>
  ELSE IF Len(arrays) = 1 THEN arrays[1]
  ELSE Flat(SubSeq(arrays, 1, Len(arrays) \div 2))
       \o Flat(SubSeq(arrays, (Len(arrays) \div 2) + 1, Len(arrays)))

On(tick, pitch) == [tick |-> tick, type |-> "on", pitch |-> pitch]
Off(tick, pitch) == [tick |-> tick, type |-> "off", pitch |-> pitch]

\* voicing.map(v => noteToMidi(v.note)).filter(n => n !== null)
midiNotesOf(voicing) ==
  LET pitches == [i \in 1..Len(voicing) |-> midiNoteToMidi(voicing[i].note)]
  IN Without(pitches, <<-1>>)

\* The arpeggio branch of the loop of exportProgressionToMidi: the events
\* pushed and the advance of currentTick.
ExportArpeggio(voicing, activeArpeggio, currentTick) ==
  LET voicedStringIndexes == [i \in 1..Len(voicing) |-> voicing[i].stringIndex]
      noteOrder == IF Len(activeArpeggio.noteOrder) = 0
                   THEN SortNumbers(voicedStringIndexes,
                                    Includes(activeArpeggio.name,
                                             <<"A", "s", "c", "e", "n", "d", "i", "n", "g">>))
                   ELSE activeArpeggio.noteOrder
      ticksPerMeasure == activeArpeggio.beatsPerMeasure * timeDivision
      numNotes == Len(noteOrder)
      ticksPerNote == ticksPerMeasure \div numNotes
      Step(i) ==
        IF \E v \in 1..Len(voicing) : voicing[v].stringIndex = noteOrder[i]
        THEN LET noteInfo == voicing[CHOOSE v \in 1..Len(voicing) :
                                       voicing[v].stringIndex = noteOrder[i]]
                 pitch == midiNoteToMidi(noteInfo.note)
                 startTick == currentTick + (i - 1) * ticksPerNote
             IN IF pitch \notin {-1, 0}
                THEN <<On(startTick, pitch), Off(startTick + ticksPerNote, pitch)>>
                ELSE <<>>
        ELSE <<>>
  IN IF numNotes = 0
     THEN [events |-> <<>>, ticks |-> 0, kind |-> "skipped", strums |-> <<>>]
     ELSE [events |-> Flat([i \in 1..numNotes |-> Step(i)]), ticks |-> ticksPerMeasure,
           kind |-> "arpeggio", strums |-> <<>>]

\* The strum branch: the events pushed, the advance of currentTick, and the
\* pitches of every sounded beat in the order of their strumDelay.
ExportStrum(voicing, activeStrum, currentTick) ==
  LET midiNotes == midiNotesOf(voicing)
      ticksPerMeasure == activeStrum.beatsPerMeasure * timeDivision
      beatTicks(b) == Round(activeStrum.beats[b][2], ticksPerMeasure)
      tickInMeasure(b) == LET RECURSIVE before(_)
                              before(k) == IF k = 0 THEN 0 ELSE before(k - 1) + beatTicks(k)
                          IN before(b - 1)
      strumNotes(b) == IF activeStrum.beats[b][1] = "down"
                       THEN midiNotes
                       ELSE [i \in 1..Len(midiNotes) |-> midiNotes[Len(midiNotes) + 1 - i]]
      Beat(b) ==
        IF activeStrum.beats[b][1] = "rest" THEN <<>>
        ELSE Flat([i \in 1..Len(midiNotes) |->
                     LET strumDelay == (i - 1) * 5
                         startTick == currentTick + tickInMeasure(b) + strumDelay
                     IN <<On(startTick, strumNotes(b)[i]),
                          Off(startTick + beatTicks(b) - strumDelay, strumNotes(b)[i])>>])
      sounded == {b \in 1..Len(activeStrum.beats) : activeStrum.beats[b][1] # "rest"}
      nth(n) == CHOOSE b \in sounded : Cardinality({c \in sounded : c < b}) = n - 1
  IN [events |-> Flat([b \in 1..Len(activeStrum.beats) |-> Beat(b)]),
      ticks |-> ticksPerMeasure, kind |-> "strum",
      strums |-> [n \in 1..Cardinality(sounded) |->
                    [type |-> activeStrum.beats[nth(n)][1], pitches |-> strumNotes(nth(n))]]]

\* The block branch.
ExportBlock(voicing, currentTick) ==
  LET midiNotes == midiNotesOf(voicing)
      ticksPerChord == timeDivision * 4
  IN [events |-> Flat([i \in 1..Len(midiNotes) |->
                         <<On(currentTick, midiNotes[i]),
                           Off(currentTick + ticksPerChord, midiNotes[i])>>]),
      ticks |-> ticksPerChord, kind |-> "block", strums |-> <<>>]

\* One turn of the loop of exportProgressionToMidi for an entry of the
\* progression.
ExportChord(progChord, instrument, currentTick) ==
  LET voicing == getVoicingForChord(progChord.chord, instrument, progChord.voicingIndex)
      strumPattern == IF progChord.strumPatternId # ""
                      THEN getPatternById(progChord.strumPatternId) ELSE <<>>
      arpeggioPattern == IF progChord.arpeggioPatternId # ""
                         THEN getPatternById(progChord.arpeggioPatternId) ELSE <<>>
      activeStrum == IF "beats" \in DOMAIN strumPattern THEN strumPattern ELSE <<>>
      activeArpeggio == IF "noteOrder" \in DOMAIN arpeggioPattern THEN arpeggioPattern ELSE <<>>
      Rendered(voiced) ==
        IF Len(voiced) = 0
        THEN [events |-> <<>>, ticks |-> 0, kind |-> "skipped", strums |-> <<>>]
        ELSE IF activeArpeggio # <<>> THEN ExportArpeggio(voiced, activeArpeggio, currentTick)
        ELSE IF activeStrum # <<>> THEN ExportStrum(voiced, activeStrum, currentTick)
        ELSE ExportBlock(voiced, currentTick)
  IN The({[events |-> rendered.events, ticks |-> rendered.ticks, kind |-> rendered.kind,
           strums |-> rendered.strums, startTick |-> currentTick,
           activeStrum |-> activeStrum, activeArpeggio |-> activeArpeggio] :
            rendered \in {Rendered(voicing)}})

\* The loop of exportProgressionToMidi over the first n entries: what each
\* turn did.
RECURSIVE ExportLoop(_, _, _)
ExportLoop(progression, instrument, n) ==
  IF n = 0 THEN <<>>
  ELSE The({Append(before,
                   ExportChord(progression[n], instrument,
                               IF before = <<>> THEN 0
                               ELSE before[Len(before)].startTick + before[Len(before)].ticks)) :
              before \in {ExportLoop(progression, instrument, n - 1)}})

\* writeVarInt: the bytes pushed for value.  The values written are below
\* 2^21, so that buffer stays below 2^24 and its 32 bits never overflow.
writeVarInt(value) ==
  LET RECURSIVE fill(_, _)
      \* the first loop: the groups of seven bits of value, the lowest last
      fill(buffer, rest) ==
        IF rest \div 128 > 0
        THEN fill(buffer * 256 + ((rest \div 128) % 128) + 128, rest \div 128)
        ELSE buffer
      RECURSIVE drain(_)
      \* the second loop: the bytes of buffer, up to the first without bit 7
      drain(buffer) ==
        IF (buffer % 256) >= 128 THEN <<buffer % 256>> \o drain(buffer \div 256)
        ELSE <<buffer % 256>>
  IN drain(fill(value % 128, value))

\* allMidiEvents.forEach of exportProgressionToMidi: the bytes written for
\* the events, lastTick being the tick of the event before.
EventBytes(events) ==
  Flat([n \in 1..Len(events) |->
          writeVarInt(events[n].tick - (IF n = 1 THEN 0 ELSE events[n - 1].tick))
          \o <<IF events[n].type = "on" THEN MIDI_NOTE_ON ELSE MIDI_NOTE_OFF,
               events[n].pitch, MIDI_VELOCITY>>])

\* The same without the sort of allMidiEvents.
exportProgressionToMidi_Unsorted(progression, instrument) ==
  LET microsecondsPerQuarter == (2 * 60000000 + ActiveBpm) \div (2 * ActiveBpm)
      Built(turns) ==
        The({[turns |-> turns,
              currentTick |-> turns[Len(turns)].startTick + turns[Len(turns)].ticks,
              allMidiEvents |-> allMidiEvents,
              trackBytes |->
                writeVarInt(0) \o <<255, 81, 3>>
                \o <<(microsecondsPerQuarter \div 65536) % 256,
                     (microsecondsPerQuarter \div 256) % 256, microsecondsPerQuarter % 256>>
                \o EventBytes(allMidiEvents)
                \o writeVarInt(0) \o <<255, 47, 0>>] :
               allMidiEvents \in
                 {Flat([n \in 1..Len(turns) |-> turns[n].events])}})
  IN The({Built(turns) : turns \in {ExportLoop(progression, instrument, Len(progression))}})

\* midi.exportProgressionToMidi with an instrument saved: the turns of the
\* loop, the sorted events and the bytes of the track chunk.  The sort is
\* stable: events of one tick stay in the order of their push.
exportProgressionToMidi(progression, instrument) ==
  LET microsecondsPerQuarter == (2 * 60000000 + ActiveBpm) \div (2 * ActiveBpm)
      Built(turns) ==
        The({[turns |-> turns,
              currentTick |-> turns[Len(turns)].startTick + turns[Len(turns)].ticks,
              allMidiEvents |-> allMidiEvents,
              trackBytes |->
                writeVarInt(0) \o <<255, 81, 3>>
                \o <<(microsecondsPerQuarter \div 65536) % 256,
                     (microsecondsPerQuarter \div 256) % 256, microsecondsPerQuarter % 256>>
                \o EventBytes(allMidiEvents)
                \o writeVarInt(0) \o <<255, 47, 0>>] :
               allMidiEvents \in
                 {LET pushed == Flat([n \in 1..Len(turns) |-> turns[n].events])
                      sorted == SortSeq([i \in 1..Len(pushed) |-> <<pushed[i], i>>],
                                        LAMBDA a, b : \/ a[1].tick < b[1].tick
                                                      \/ a[1].tick = b[1].tick /\ a[2] < b[2])
                  IN [i \in 1..Len(sorted) |-> sorted[i][1]]}})
  IN The({Built(turns) : turns \in {ExportLoop(progression, instrument, Len(progression))}})

\* importexport.handleMidiExportClick: with fewer than two highlighted nodes
\* an alert is shown; without a saved instrument exportProgressionToMidi
\* logs an error.  The progression takes the pattern ids from the node's
\* own attributes.
HandleMidiExportClick ==
  /\ midi = <<>>
  /\ IF Len(nodes) < 2 \/ savedInstrument = "none"
     THEN UNCHANGED midi
     ELSE midi' = exportProgressionToMidi(
                    [n \in 1..Len(nodes) |->
                       [chord |-> nodes[n].chord, voicingIndex |-> nodes[n].voicingIndex,
                        strumPatternId |-> nodes[n].strumPatternId,
                        arpeggioPatternId |-> nodes[n].arpeggioPatternId]],
                    savedInstrument)
  /\ UNCHANGED nodes
  /\ UNCHANGED <<theoryVars, playbackVars, rhythmVars, catalogVars, appVars>>

NextExport == ApplyToSingle \/ ApplyToAll \/ HandleMidiExportClick

SpecExport == InitExport /\ [][NextExport]_vars

\* ------------------------------------------------------------------------
\* The exported track against playback and against the tick arithmetic
\* ------------------------------------------------------------------------

\* The entries of the exported progression that have a voicing.
VoicedTurns == {n \in 1..Len(midi.turns) : midi.turns[n].kind # "skipped"}

\* C13: after an export, every voiced chord of the progression was rendered
\* with the pattern that playSequence plays for its node: the node's own
\* strum or arpeggio pattern, otherwise the one inherited from the nearest
\* ancestor that has a pattern, otherwise none (a block chord).
C13_ExportRendersThePlayedPattern ==
  midi # <<>> =>
    \A n \in VoicedTurns :
       /\ midi.turns[n].activeStrum = PlayedPattern(n).activeStrum
       /\ midi.turns[n].activeArpeggio = PlayedPattern(n).activeArpeggio

\* The notes that playback hands to playStrummedChord for the n-th node.
PlayedNotes(n) ==
  LET voicing == getVoicingForChord(nodes[n].chord, savedInstrument, nodes[n].voicingIndex)
  IN [i \in 1..Len(voicing) |-> voicing[i].note]

\* C14: after an export, every sounded beat of every strummed chord starts
\* its strings in the order in which playStrummedChord starts them for the
\* same beat: a down beat from the lowest string to the highest, an up beat
\* from the highest to the lowest.
C14_ExportStrumsInPlaybackOrder ==
  midi # <<>> =>
    \A n \in VoicedTurns :
       \A b \in 1..Len(midi.turns[n].strums) :
          midi.turns[n].strums[b].pitches
            = [i \in 1..Len(PlayedNotes(n)) |->
                 midiNoteToMidi(strumOrder(PlayedNotes(n), midi.turns[n].strums[b].type)[i])]

\* The tick length of an entry by the exporter's rules: four quarter notes
\* for a block chord, beatsPerMeasure quarter notes for a pattern.
RECURSIVE SumOfChordTicks(_)
SumOfChordTicks(n) ==
  IF n = 0 THEN 0
  ELSE SumOfChordTicks(n - 1)
       + (IF midi.turns[n].activeArpeggio # <<>>
          THEN midi.turns[n].activeArpeggio.beatsPerMeasure * timeDivision
          ELSE IF midi.turns[n].activeStrum # <<>>
          THEN midi.turns[n].activeStrum.beatsPerMeasure * timeDivision
          ELSE timeDivision * 4)

\* The tick of the last event of the track; the end-of-track event is
\* written with a delta of 0.
LastTick == IF midi.allMidiEvents = <<>> THEN 0
            ELSE midi.allMidiEvents[Len(midi.allMidiEvents)].tick

\* C15: after an export, the tick of the track's last event is the sum of
\* the tick lengths of the progression's chords.
C15_TrackLengthIsSumOfChordTicks ==
  midi # <<>> => LastTick = SumOfChordTicks(Len(midi.turns))

\* C16: after an export, an entry that has no voicing has no events and
\* the running tick is advanced by the entry's duration all the same, so
\* that the entry after it starts that much later.
C16_UnvoicedChordKeepsItsTime ==
  midi # <<>> =>
    \A n \in 1..Len(midi.turns) :
       midi.turns[n].kind = "skipped" =>
         /\ midi.turns[n].events = <<>>
         /\ (IF n < Len(midi.turns) THEN midi.turns[n + 1].startTick ELSE midi.currentTick)
              = midi.turns[n].startTick
                + (SumOfChordTicks(n) - SumOfChordTicks(n - 1))

\* ------------------------------------------------------------------------
\* The shape of the exported track
\* ------------------------------------------------------------------------

\* The number a reader of the file takes from the bytes of a
\* variable-length quantity.
RECURSIVE readVarInt(_)
readVarInt(bytes) ==
  IF bytes = <<>> THEN 0
  ELSE readVarInt(DropLast(bytes)) * 128 + (bytes[Len(bytes)] % 128)

\* bytes is one variable-length quantity: bit 7 is set in every byte but
\* the last.
IsVarInt(bytes) ==
  /\ bytes # <<>>
  /\ bytes[Len(bytes)] < 128
  /\ \A i \in 1..(Len(bytes) - 1) : bytes[i] >= 128

\* The delta time written in front of the n-th note event.
DeltaOf(n) ==
  midi.allMidiEvents[n].tick - (IF n = 1 THEN 0 ELSE midi.allMidiEvents[n - 1].tick)

\* The track starts with the tempo meta event and ends with the
\* end-of-track meta event, each with a delta time of 0; the note events
\* between them are in the order of their ticks and the delta time of each
\* is written as the variable-length quantity of a number that is not
\* negative.
TrackIsTimeOrdered ==
  /\ SubSeq(midi.trackBytes, 1, 4) = <<0, 255, 81, 3>>
  /\ Len(midi.trackBytes) >= 11
  /\ SubSeq(midi.trackBytes, Len(midi.trackBytes) - 3, Len(midi.trackBytes)) = <<0, 255, 47, 0>>
  /\ Len(midi.trackBytes) = 11 + Len(EventBytes(midi.allMidiEvents))
  /\ \A n \in 1..Len(midi.allMidiEvents) :
        /\ DeltaOf(n) >= 0
        /\ IsVarInt(writeVarInt(DeltaOf(n)))
        /\ readVarInt(writeVarInt(DeltaOf(n))) = DeltaOf(n)

\* Every note-on is followed by a note-off of its pitch, with no event of
\* that pitch between the two.
NoteOnsAlternate ==
  \A i \in 1..Len(midi.allMidiEvents) :
     midi.allMidiEvents[i].type = "on" =>
       \E j \in (i + 1)..Len(midi.allMidiEvents) :
          /\ midi.allMidiEvents[j].pitch = midi.allMidiEvents[i].pitch
          /\ midi.allMidiEvents[j].type = "off"
          /\ \A k \in (i + 1)..(j - 1) :
                midi.allMidiEvents[k].pitch # midi.allMidiEvents[i].pitch

\* The events of pitch among the first n events of the track.
EventsOf(type, pitch, n) ==
  Cardinality({i \in 1..n : /\ midi.allMidiEvents[i].type = type
                            /\ midi.allMidiEvents[i].pitch = pitch})

\* Every note-off ends a note that is sounding: up to each note-off the
\* track has at least as many note-ons of its pitch as note-offs, and at
\* the end of the track as many.
NoteOnsAreEnded ==
  \A n \in 1..Len(midi.allMidiEvents) :
     /\ midi.allMidiEvents[n].type = "off" =>
          EventsOf("off", midi.allMidiEvents[n].pitch, n)
            <= EventsOf("on", midi.allMidiEvents[n].pitch, n)
     /\ EventsOf("off", midi.allMidiEvents[n].pitch, Len(midi.allMidiEvents))
          = EventsOf("on", midi.allMidiEvents[n].pitch, Len(midi.allMidiEvents))

\* The n-th entry of the exported progression sounds no pitch on two
\* strings.
PitchesDiffer(n) ==
  LET voicing == getVoicingForChord(nodes[n].chord, savedInstrument, nodes[n].voicingIndex)
  IN \A i, j \in 1..Len(voicing) : i # j => voicing[i].note # voicing[j].note

\* C17 as stated: in every exported track the tempo meta event is first,
\* the note events follow in the order of their ticks with delta times that
\* are not negative, every note-on of a pitch is followed by a note-off of
\* that pitch before the next note-on of the pitch, and the end-of-track
\* meta event is last.
C17_NoteOnsAlternateWithNoteOffs ==
  midi # <<>> => TrackIsTimeOrdered /\ NoteOnsAlternate

\* C17 amended: the order of the track is as stated; every note-on is
\* ended by a note-off of its pitch, and the note-ons and note-offs of a
\* pitch alternate when no chord of the progression sounds a pitch on two
\* strings.
C17_TrackIsOrderedAndNotesEnd ==
  midi # <<>> =>
    /\ TrackIsTimeOrdered
    /\ NoteOnsAreEnded
    /\ (\A n \in 1..Len(nodes) : PitchesDiffer(n)) => NoteOnsAlternate

\* An export in which a chord sounds a pitch on two strings and another
\* chord is strummed: the track holds two note-ons of a pitch with no
\* note-off between them, and events pushed out of the order of their ticks.
C17_Witness_PitchOnTwoStrings ==
  /\ midi # <<>>
  /\ \E n \in VoicedTurns : ~PitchesDiffer(n)
  /\ \E n \in VoicedTurns : midi.turns[n].kind = "strum"
  /\ ~NoteOnsAlternate

\* ------------------------------------------------------------------------
\* The persistent store: storage._persistState, forceSaveState,
\* _debouncedPersist, the mutators of the state and the pagehide handler
\* ------------------------------------------------------------------------

\* The most edits made to the in-memory state and the most calls of
\* _persistState in flight at a time.
MaxEdits == 2
MaxRuns == 1

\* clearTimeout(id)
clearTimeout(pending, id) == {t \in pending : t.id # id}

\* The same without the clearTimeout of the timeout set before.
debouncedPersist_KeepTimeout(pending, timeoutId, newId) ==
  [timers |-> pending \cup {[id |-> newId, due |-> DebounceSeconds]},
   saveTimeout |-> newId]

\* _debouncedPersist: the pending timeouts and _saveTimeout after the call,
\* newId being the id that window.setTimeout returns.
debouncedPersist(pending, timeoutId, newId) ==
  [timers |-> (IF timeoutId # 0 THEN clearTimeout(pending, timeoutId) ELSE pending)
              \cup {[id |-> newId, due |-> DebounceSeconds]},
   saveTimeout |-> newId]

\* The synchronous part of _persistState: _saveTimeout is cleared and the
\* call goes on to await dbSet('guitar', ...).
persistState(pending, timeoutId, runs, caller) ==
  [timers |-> IF timeoutId # 0 THEN clearTimeout(pending, timeoutId) ELSE pending,
   saveTimeout |-> 0,
   persistRuns |-> Append(runs, [by |-> caller, awaits |-> "guitar"])]

InitStore ==
  /\ TheoryAtRest
  /\ SessionsAtRest
  /\ RhythmAtRest
  /\ CatalogAtRest
  /\ ExportAtRest
  /\ AppAtRest
  /\ savedInstrument \in {"none"} \cup Instruments

\* A mutator of the state (saveWorkspaceState, saveProgression, saveSong,
\* saveArrangerState, ...): the state of the instrument is changed in memory
\* and _debouncedPersist is called.
SaveState ==
  /\ inMemoryState.guitar + inMemoryState.ukulele < MaxEdits
  /\ \E instrument \in Instruments :
        inMemoryState' = [inMemoryState EXCEPT ![instrument] = @ + 1]
  /\ timers' = debouncedPersist(timers, saveTimeout, nextTimerId).timers
  /\ saveTimeout' = debouncedPersist(timers, saveTimeout, nextTimerId).saveTimeout
  /\ nextTimerId' = nextTimerId + 1
  /\ sinceCall' = 0
  /\ UNCHANGED <<persistRuns, idb, storeAccepts>>
  /\ UNCHANGED <<theoryVars, playbackVars, rhythmVars, catalogVars, exportVars, besideStore>>

\* A second passes: no timeout is due.
SecondPasses ==
  /\ \A t \in timers : t.due > 0
  /\ \/ timers # {}
     \/ sinceCall <= DebounceSeconds
  /\ timers' = {[id |-> t.id, due |-> t.due - 1] : t \in timers}
  /\ sinceCall' = IF sinceCall <= DebounceSeconds THEN sinceCall + 1 ELSE sinceCall
  /\ UNCHANGED <<inMemoryState, saveTimeout, nextTimerId, persistRuns, idb, storeAccepts>>
  /\ UNCHANGED <<theoryVars, playbackVars, rhythmVars, catalogVars, exportVars, besideStore>>

\* The callback of a timeout of _debouncedPersist runs: _persistState().
TimeoutFires ==
  /\ Len(persistRuns) < MaxRuns
  /\ \E t \in timers :
        /\ t.due = 0
        /\ timers' = persistState(timers \ {t}, saveTimeout, persistRuns, "timeout").timers
        /\ saveTimeout' = persistState(timers \ {t}, saveTimeout, persistRuns, "timeout").saveTimeout
        /\ persistRuns' = persistState(timers \ {t}, saveTimeout, persistRuns, "timeout").persistRuns
  /\ UNCHANGED <<inMemoryState, nextTimerId, idb, storeAccepts, sinceCall>>
  /\ UNCHANGED <<theoryVars, playbackVars, rhythmVars, catalogVars, exportVars, besideStore>>

\* forceSaveState()
ForceSaveState ==
  /\ Len(persistRuns) < MaxRuns
  /\ timers' = persistState(timers, saveTimeout, persistRuns, "force").timers
  /\ saveTimeout' = persistState(timers, saveTimeout, persistRuns, "force").saveTimeout
  /\ persistRuns' = persistState(timers, saveTimeout, persistRuns, "force").persistRuns
  /\ UNCHANGED <<inMemoryState, nextTimerId, idb, storeAccepts, sinceCall>>
  /\ UNCHANGED <<theoryVars, playbackVars, rhythmVars, catalogVars, exportVars, besideStore>>

\* The pagehide handler with an instrument saved: saveWorkspaceState of the
\* workspace as it is (an edit of the state) and forceSaveState.
PageHide ==
  /\ savedInstrument # "none"
  /\ Len(persistRuns) < MaxRuns
  /\ inMemoryState.guitar + inMemoryState.ukulele < MaxEdits
  /\ inMemoryState' = [inMemoryState EXCEPT ![savedInstrument] = @ + 1]
  /\ LET set == debouncedPersist(timers, saveTimeout, nextTimerId)
         forced == persistState(set.timers, set.saveTimeout, persistRuns, "force")
     IN /\ timers' = forced.timers
        /\ saveTimeout' = forced.saveTimeout
        /\ persistRuns' = forced.persistRuns
  /\ nextTimerId' = nextTimerId + 1
  /\ sinceCall' = 0
  /\ UNCHANGED <<idb, storeAccepts>>
  /\ UNCHANGED <<theoryVars, playbackVars, rhythmVars, catalogVars, exportVars, besideStore>>

\* persistRuns without its i-th call.
WithoutRun(runs, i) == SubSeq(runs, 1, i - 1) \o SubSeq(runs, i + 1, Len(runs))

\* The dbSet that a call of _persistState awaits settles.  The put stores
\* the value the state has then; a rejected put ends the call in its catch
\* block, which logs the error.
DbSetSettles ==
  /\ \E i \in 1..Len(persistRuns) :
        IF ~storeAccepts
        THEN /\ persistRuns' = WithoutRun(persistRuns, i)
             /\ UNCHANGED idb
        ELSE CASE persistRuns[i].awaits = "guitar" ->
                    /\ idb' = [idb EXCEPT !.guitar = inMemoryState.guitar]
                    /\ persistRuns' = [persistRuns EXCEPT ![i].awaits = "ukulele"]
               [] persistRuns[i].awaits = "ukulele" ->
                    /\ idb' = [idb EXCEPT !.ukulele = inMemoryState.ukulele]
                    /\ persistRuns' = IF savedInstrument # "none"
                                      THEN [persistRuns EXCEPT ![i].awaits = "lastActiveInstrument"]
                                      ELSE WithoutRun(persistRuns, i)
               [] OTHER ->
                    /\ idb' = [idb EXCEPT !.lastActiveInstrument = savedInstrument]
                    /\ persistRuns' = WithoutRun(persistRuns, i)
  /\ UNCHANGED <<inMemoryState, saveTimeout, timers, nextTimerId, storeAccepts, sinceCall>>
  /\ UNCHANGED <<theoryVars, playbackVars, rhythmVars, catalogVars, exportVars, besideStore>>

\* The store starts to reject its puts (quota, a closed database).
StoreFails ==
  /\ storeAccepts
  /\ storeAccepts' = FALSE
  /\ UNCHANGED <<inMemoryState, saveTimeout, timers, nextTimerId, persistRuns, idb, sinceCall>>
  /\ UNCHANGED <<theoryVars, playbackVars, rhythmVars, catalogVars, exportVars, besideStore>>

\* The store accepts its puts again.
StoreRecovers ==
  /\ ~storeAccepts
  /\ storeAccepts' = TRUE
  /\ UNCHANGED <<inMemoryState, saveTimeout, timers, nextTimerId, persistRuns, idb, sinceCall>>
  /\ UNCHANGED <<theoryVars, playbackVars, rhythmVars, catalogVars, exportVars, besideStore>>

NextStore ==
  \/ SaveState
  \/ SecondPasses
  \/ TimeoutFires
  \/ ForceSaveState
  \/ PageHide
  \/ DbSetSettles
  \/ StoreFails
  \/ StoreRecovers

SpecStore == InitStore /\ [][NextStore]_vars

\* The event loop runs the callbacks that are due and time passes; the
\* requests made to the store settle.
SpecStoreFair ==
  /\ SpecStore
  /\ WF_vars(SecondPasses)
  /\ WF_vars(TimeoutFires)
  /\ WF_vars(DbSetSettles)

\* The documents of both instruments are stored as they are in memory.
Synced ==
  /\ idb.guitar = inMemoryState.guitar
  /\ idb.ukulele = inMemoryState.ukulele

\* A call of _persistState ends in its catch block.
WriteFails == ~storeAccepts /\ Len(persistRuns') < Len(persistRuns)

\* C21: when a write to the store fails the state in memory stays as it is
\* and a further attempt to persist is pending without another edit, so
\* that once the store accepts writes for good the stored documents come to
\* equal the state in memory and stay so.
C21_FailedWriteIsRetried ==
  /\ [][WriteFails => /\ inMemoryState' = inMemoryState
                      /\ (timers' # {} \/ persistRuns' # <<>>)]_vars
  /\ (<>[]storeAccepts) => <>[]Synced

\* A call of _persistState starts: from the callback of a timeout, or from
\* forceSaveState.
CommitStarts(caller) ==
  /\ Len(persistRuns') = Len(persistRuns) + 1
  /\ persistRuns'[Len(persistRuns')].by = caller

\* C22: at most one timeout of _debouncedPersist is pending at any time; a
\* commit made by the timeout is made two seconds after the last mutating
\* call, leaves no timeout behind (one commit for the whole burst) and every
\* put of it stores the value the state has at that time; forceSaveState
\* cancels the pending timeout and starts its commit at once; and a pending
\* timeout always leads to a commit.
C22_DebouncedCommit ==
  /\ [](Cardinality(timers) <= 1)
  /\ [][CommitStarts("timeout") => sinceCall = DebounceSeconds /\ timers' = {}]_vars
  /\ [][CommitStarts("force") => timers' = {} /\ saveTimeout' = 0]_vars
  /\ [][idb' # idb =>
          \/ idb' = [idb EXCEPT !.guitar = inMemoryState.guitar]
          \/ idb' = [idb EXCEPT !.ukulele = inMemoryState.ukulele]
          \/ idb' = [idb EXCEPT !.lastActiveInstrument = savedInstrument]]_vars
  /\ (timers # {}) ~> (timers = {} /\ persistRuns # <<>>)

\* Two mutating calls less than two seconds apart have been made, the
\* second timeout has run after its two seconds and its commit is in
\* flight; nothing was stored before.
C22_Witness_BurstCommitted ==
  /\ inMemoryState.guitar + inMemoryState.ukulele = 2
  /\ nextTimerId = 3
  /\ sinceCall = DebounceSeconds
  /\ timers = {}
  /\ idb.guitar = 0 /\ idb.ukulele = 0
  /\ persistRuns = <<[by |-> "timeout", awaits |-> "guitar"]>>
\* ------------------------------------------------------------------------
\* The chord tree and the workspace: the block button, applyVoicing,
\* getCurrentWorkspaceState, loadStateForInstrument and
\* renderProgressionAsInteractive
\* ------------------------------------------------------------------------

\* The most nodes of the highlighted path of the tree.
MaxDepth == 3

\* The chords along the highlighted path.
PathChord(level) == IF level % 2 = 1 THEN Name("C", "", "") ELSE Name("A", "", "m")

\* A path of the guitar's tree is highlighted, no node has a pattern.
InitTree ==
  /\ TheoryAtRest
  /\ SessionsAtRest
  /\ RhythmAtRest
  /\ savedInstrument = "guitar"
  /\ chordDB = SoundCatalogue
  /\ voicingCall = <<>>
  /\ validatorRan = FALSE
  /\ issues = NoCatalogue
  /\ nodes \in {[i \in 1..depth |-> NewNode(PathChord(i))] : depth \in 1..MaxDepth}
  /\ midi = <<>>
  /\ AppAtRest

\* The click handler of a node's block button.
BlockChordBtn ==
  /\ workspaceState = <<>>
  /\ \E n \in 1..Len(nodes) :
        /\ nodes' = [nodes EXCEPT ![n] = [@ EXCEPT !.strumPatternId = "",
                                                   !.arpeggioPatternId = "",
                                                   !.playbackStyle = "block"]]
        /\ updateTreeVisualsFromNode(n)
  /\ UNCHANGED <<midi, workspaceState, captured>>
  /\ UNCHANGED <<theoryVars, playbackVars, rhythmVars, catalogVars, besideTree>>

\* applyVoicing: a voicing of the node's chord is chosen in the voicing modal.
ApplyVoicing ==
  /\ workspaceState = <<>>
  /\ savedInstrument # "none"
  /\ \E n \in 1..Len(nodes) :
       \E index \in 0..(Len(Lookup(chordDB[savedInstrument], nodes[n].chord)) - 1) :
          nodes' = [nodes EXCEPT ![n] = [@ EXCEPT !.voicingIndex = index]]
  /\ UNCHANGED <<midi, treeVars>>
  /\ UNCHANGED <<theoryVars, playbackVars, rhythmVars, catalogVars, besideTree>>

\* getCurrentWorkspaceState: the currentProgression of the state captured.
getCurrentWorkspaceState ==
  IF Len(nodes) > 0
  THEN [chords |-> [n \in 1..Len(nodes) |-> nodes[n].chord],
        voicingIndices |-> [n \in 1..Len(nodes) |-> nodes[n].voicingIndex],
        strumPatternIds |-> [n \in 1..Len(nodes) |-> nodes[n].strumPatternId],
        arpeggioPatternIds |-> [n \in 1..Len(nodes) |-> nodes[n].arpeggioPatternId]]
  ELSE <<>>

\* The click handler of backToWelcomeBtn: the workspace is captured and saved
\* for the instrument, and the welcome screen hides the tree.
BackToWelcome ==
  /\ workspaceState = <<>>
  /\ savedInstrument # "none"
  /\ workspaceState' = getCurrentWorkspaceState
  /\ captured' = [n \in 1..Len(nodes) |->
                    [chord |-> nodes[n].chord, voicingIndex |-> nodes[n].voicingIndex,
                     pattern |-> getEffectivePatternForNode(n).pattern]]
  /\ inMemoryState' = [inMemoryState EXCEPT ![savedInstrument] = @ + 1]
  /\ timers' = debouncedPersist(timers, saveTimeout, nextTimerId).timers
  /\ saveTimeout' = debouncedPersist(timers, saveTimeout, nextTimerId).saveTimeout
  /\ nextTimerId' = nextTimerId + 1
  /\ sinceCall' = 0
  /\ UNCHANGED <<persistRuns, idb, storeAccepts>>
  /\ UNCHANGED <<indicator, exportVars, schedulerVars, arrangerVars, clickVars>>
  /\ UNCHANGED <<theoryVars, playbackVars, rhythmVars, catalogVars>>

\* renderProgressionAsInteractive: the nodes the tree is rebuilt with.
renderProgressionAsInteractive(chords, voicings, patterns) ==
  [i \in 1..Len(chords) |->
     [chord |-> chords[i],
      voicingIndex |-> voicings[i],
      strumPatternId |-> patterns.strum[i],
      arpeggioPatternId |-> patterns.arpeggio[i],
      playbackStyle |-> ""]]

\* loadStateForInstrument, called when the instrument is chosen on the
\* welcome screen: the saved path is rendered and every node's indicator is
\* drawn.
LoadStateForInstrument ==
  /\ workspaceState # <<>>
  /\ nodes' = renderProgressionAsInteractive(
                workspaceState.chords, workspaceState.voicingIndices,
                [strum |-> workspaceState.strumPatternIds,
                 arpeggio |-> workspaceState.arpeggioPatternIds])
  /\ updateTreeVisualsFromNode(1)
  /\ UNCHANGED <<midi, workspaceState, captured>>
  /\ UNCHANGED <<theoryVars, playbackVars, rhythmVars, catalogVars, besideTree>>

NextTree ==
  \/ ApplyToSingle
  \/ ApplyToAll
  \/ BlockChordBtn
  \/ ApplyVoicing
  \/ BackToWelcome
  \/ LoadStateForInstrument

SpecTree == InitTree /\ [][NextTree]_vars

\* ------------------------------------------------------------------------
\* C23
\* ------------------------------------------------------------------------

HasOwnPattern(n) == nodes[n].strumPatternId # "" \/ nodes[n].arpeggioPatternId # ""

OwnPattern(n) ==
  getPatternById(IF nodes[n].strumPatternId # "" THEN nodes[n].strumPatternId
                 ELSE nodes[n].arpeggioPatternId)

\* The ancestors of the n-th node that have a strum or arpeggio pattern.
PatternedAncestors(n) == {m \in 1..(n - 1) : HasOwnPattern(m)}

Greatest(S) == CHOOSE m \in S : \A other \in S : other <= m

\* C23: getEffectivePatternForNode(n) returns n's own strum or arpeggio
\* pattern when n has one; a node explicitly set to block gets null without
\* inheriting; otherwise the node gets the pattern of its nearest ancestor
\* that has a strum or arpeggio pattern, marked as inherited; otherwise
\* null.
C23_NearestPatternedAncestor ==
  \A n \in 1..Len(nodes) :
     getEffectivePatternForNode(n) =
       IF HasOwnPattern(n) THEN [pattern |-> OwnPattern(n), isInherited |-> FALSE]
       ELSE IF nodes[n].playbackStyle = "block" THEN [pattern |-> <<>>, isInherited |-> FALSE]
       ELSE IF PatternedAncestors(n) # {}
       THEN [pattern |-> OwnPattern(Greatest(PatternedAncestors(n))), isInherited |-> TRUE]
       ELSE [pattern |-> <<>>, isInherited |-> FALSE]

\* ------------------------------------------------------------------------
\* C28
\* ------------------------------------------------------------------------

\* The node carries at most one of strumPatternId, arpeggioPatternId and
\* playbackStyle = block.
AtMostOnePatternAttribute(node) ==
  Cardinality({attr \in {"strumPatternId", "arpeggioPatternId", "playbackStyle"} :
                 \/ attr = "strumPatternId" /\ node.strumPatternId # ""
                 \/ attr = "arpeggioPatternId" /\ node.arpeggioPatternId # ""
                 \/ attr = "playbackStyle" /\ node.playbackStyle = "block"}) <= 1

\* The kind of pattern playSequence chooses for the n-th node, which is
\* also the kind handleAddToSong stores for playFullSong.
PlayedKind(n) ==
  IF PlayedPattern(n).activeArpeggio # <<>> THEN "arpeggio"
  ELSE IF PlayedPattern(n).activeStrum # <<>> THEN "strum"
  ELSE "block"

\* The kind of pattern exportProgressionToMidi chooses for the n-th node
\* from the ids handleMidiExportClick hands it.
ExportedKind(n) ==
  LET strumPattern == IF nodes[n].strumPatternId # ""
                      THEN getPatternById(nodes[n].strumPatternId) ELSE <<>>
      arpeggioPattern == IF nodes[n].arpeggioPatternId # ""
                         THEN getPatternById(nodes[n].arpeggioPatternId) ELSE <<>>
  IN IF "noteOrder" \in DOMAIN arpeggioPattern THEN "arpeggio"
     ELSE IF "beats" \in DOMAIN strumPattern THEN "strum"
     ELSE "block"

\* C28: whatever pattern operations were made on the nodes (a strum or an
\* arpeggio pattern applied to one node or to all, a node cleared or set to
\* block, the workspace saved and restored), every node carries at most one
\* of strumPatternId, arpeggioPatternId and playbackStyle = block, and
\* playback and MIDI export choose the same kind of pattern for it.
C28_OneKindOfPatternPerNode ==
  \A n \in 1..Len(nodes) :
     /\ AtMostOnePatternAttribute(nodes[n])
     /\ PlayedKind(n) = ExportedKind(n)

\* ------------------------------------------------------------------------
\* C30
\* ------------------------------------------------------------------------

\* What playback takes from the n-th node: its chord, its voicing index and
\* its effective pattern.
NodeView(n) ==
  [chord |-> nodes[n].chord, voicingIndex |-> nodes[n].voicingIndex,
   pattern |-> getEffectivePatternForNode(n).pattern]

\* C30: restoring with loadStateForInstrument the workspace captured with
\* getCurrentWorkspaceState gives every node of the highlighted path the
\* chord, the voicing index and the effective pattern it had when the
\* workspace was captured, nodes set to block beneath an ancestor with a
\* pattern included.
C30_WorkspaceRoundTrip ==
  [][LoadStateForInstrument =>
       /\ Len(nodes') = Len(captured)
       /\ \A n \in 1..Len(captured) : NodeView(n)' = captured[n]]_vars

\* ------------------------------------------------------------------------
\* The arpeggio scheduler: audio.playArpeggiatedChord and
\* audio.playArpeggioWithCallback
\* ------------------------------------------------------------------------

\* The arpeggio presets previewed: the scalable ones of two and of four
\* beats and one with a fixed note order.
PreviewedArpeggios == {"asc-44", "desc-44", "asc-22", "desc-22", "broken-38"}

\* The audio backend is initialised, a chord catalogue is loaded and no
\* arpeggio has been scheduled.
InitScheduler ==
  /\ TheoryAtRest
  /\ savedInstrument \in Instruments
  /\ highlightedNodes = <<>>
  /\ songStructure = <<>>
  /\ soundfontDefined = TRUE
  /\ loopActive = FALSE
  /\ buttons = ButtonsAtRest
  /\ isPlaying = FALSE
  /\ stopPlaybackRequested = FALSE
  /\ isLoopingActive = FALSE
  /\ seqPc = "idle"
  /\ seqCursor = 0
  /\ isSongPlaying = FALSE
  /\ stopSongRequested = FALSE
  /\ songPc = "idle"
  /\ songCursor = <<0, 0>>
  /\ isInitialized = TRUE
  /\ isInitializing = FALSE
  /\ welcomePc = "idle"
  /\ thenCallbacks = {}
  /\ played = {}
  /\ audit = [s \in Sessions |-> NoAudit]
  /\ initCaller = "none"
  /\ RhythmAtRest
  /\ ExportAtRest
  /\ AppAtRest
  /\ chordDB \in Catalogues
  /\ voicingCall = <<>>
  /\ validatorRan = FALSE
  /\ issues = NoCatalogue

\* audio.playArpeggioWithCallback, and audio.playArpeggiatedChord, which
\* schedules the same way: the note order materialised and, by step of the
\* order, the note handed to player.play; a step whose string the voicing
\* does not sound plays nothing.
playArpeggioWithCallback(voicing, arpeggio) ==
  LET voicedStringIndexes == [i \in 1..Len(voicing) |-> voicing[i].stringIndex]
      noteOrder == IF Len(arpeggio.noteOrder) = 0
                   THEN SortNumbers(voicedStringIndexes,
                                    Includes(arpeggio.name,
                                             <<"A", "s", "c", "e", "n", "d", "i", "n", "g">>))
                   ELSE arpeggio.noteOrder
      steps == {i \in 1..Len(noteOrder) :
                  \E v \in 1..Len(voicing) : voicing[v].stringIndex = noteOrder[i]}
  IN [noteOrder |-> noteOrder,
      notes |-> [i \in steps |->
                   voicing[CHOOSE v \in 1..Len(voicing) :
                             voicing[v].stringIndex = noteOrder[i]].note]]

\* The click on an arpeggio pattern of the modal: the pattern is previewed on
\* the chord the modal was opened for.
PreviewArpeggio ==
  /\ isInitialized
  /\ \E chordName \in ChordNames, voicingIndex \in 0..MaxVoicingIndex,
        patternId \in PreviewedArpeggios :
        LET voicing == getVoicingForChord(chordName, savedInstrument, voicingIndex)
        IN /\ Len(voicing) > 0
           /\ arpeggioCall' = [chordName |-> chordName, voicingIndex |-> voicingIndex,
                               patternId |-> patternId, voicing |-> voicing,
                               scheduled |-> playArpeggioWithCallback(voicing,
                                                                      getPatternById(patternId))]
  /\ UNCHANGED <<theoryVars, playbackVars, rhythmVars, catalogVars, exportVars, besideScheduler>>

NextScheduler == PreviewArpeggio

SpecScheduler == InitScheduler /\ [][NextScheduler]_vars

\* ------------------------------------------------------------------------
\* C24
\* ------------------------------------------------------------------------

\* The last call scheduled a scalable pattern.
ScalableCall ==
  /\ arpeggioCall # <<>>
  /\ Len(getPatternById(arpeggioCall.patternId).noteOrder) = 0

\* The string indexes the voicing of the call sounds.
SoundedStrings == {arpeggioCall.voicing[i].stringIndex : i \in 1..Len(arpeggioCall.voicing)}

\* The pitches of the notes of the call in the order they sound.
ScheduledPitches ==
  [i \in 1..Len(arpeggioCall.scheduled.noteOrder) |-> noteToMidi(arpeggioCall.scheduled.notes[i])]

\* C24: the order the scheduler materialises for a scalable arpeggio pattern
\* and a non-empty voicing holds every sounded string once and no muted
\* string, and its notes sound in non-decreasing pitch when the pattern's
\* name contains "Ascending" and in non-increasing pitch otherwise; the Dm of
\* the guitar with strings 5 and 4 muted ascends in the order [3,2,1,0].
C24_ScalableOrderFollowsPitch ==
  ScalableCall =>
    LET noteOrder == arpeggioCall.scheduled.noteOrder
        ascending == Includes(getPatternById(arpeggioCall.patternId).name,
                              <<"A", "s", "c", "e", "n", "d", "i", "n", "g">>)
    IN /\ {noteOrder[i] : i \in 1..Len(noteOrder)} = SoundedStrings
       /\ Len(noteOrder) = Cardinality(SoundedStrings)
       /\ DOMAIN arpeggioCall.scheduled.notes = 1..Len(noteOrder)
       /\ \A i \in 1..(Len(noteOrder) - 1) :
             IF ascending THEN ScheduledPitches[i] <= ScheduledPitches[i + 1]
             ELSE ScheduledPitches[i] >= ScheduledPitches[i + 1]
       /\ (/\ savedInstrument = "guitar"
           /\ arpeggioCall.chordName = Name("D", "", "m")
           /\ SoundedStrings = {0, 1, 2, 3}
           /\ ascending) => noteOrder = <<3, 2, 1, 0>>

\* ------------------------------------------------------------------------
\* The song arranger and the saved songs: song-arranger.handleAddToSong,
\* handleProgressionDrop, handleDrop, handleDeleteSelectedSection,
\* handleClearSong, setSongStructure, storage.saveSong and importSongs
\* ------------------------------------------------------------------------

\* The most sections of a song and the most saved songs.
MaxSections == 2
MaxSongs == 2

\* The highlighted paths a section is made of: one chord; two chords, the
\* second inheriting the strum pattern of the first; two chords, an
\* arpeggio on the first and the second set to block.
ArrangerPaths ==
  {<<NewNode(Name("C", "", ""))>>,
   <<applyPatternToNode(NewNode(Name("C", "", "")), "march-cut", "strum"),
     NewNode(Name("A", "", "m"))>>,
   <<applyPatternToNode(NewNode(Name("C", "", "")), "asc-44", "arpeggio"),
     applyPatternToNode(NewNode(Name("A", "", "m")), "clear-strum", "strum")>>}

\* The song files imported: a song as handleExportSongs writes it, and a
\* song whose section has two chords and one strum pattern id.
ImportFiles ==
  {<<[name |-> "exported",
      structure |-> <<[label |-> 1, chords |-> <<Name("C", "", "")>>, voicingIndices |-> <<0>>,
                       strumPatternIds |-> <<"march-cut">>, arpeggioPatternIds |-> <<"">>]>>]>>,
   <<[name |-> "edited",
      structure |-> <<[label |-> 1, chords |-> <<Name("C", "", ""), Name("A", "", "m")>>,
                       voicingIndices |-> <<0, 0>>,
                       strumPatternIds |-> <<"march-cut">>, arpeggioPatternIds |-> <<"">>]>>]>>}

InitArranger ==
  /\ TheoryAtRest
  /\ SessionsAtRest
  /\ RhythmAtRest
  /\ CatalogAtRest
  /\ savedInstrument \in Instruments
  /\ nodes \in ArrangerPaths
  /\ midi = <<>>
  /\ AppAtRest

\* The id of the pattern getEffectivePatternForNode finds for the n-th node,
\* "" for none.
RECURSIVE EffectivePatternId(_)
EffectivePatternId(n) ==
  IF n = 0 THEN ""
  ELSE IF nodes[n].strumPatternId # "" THEN nodes[n].strumPatternId
  ELSE IF nodes[n].arpeggioPatternId # "" THEN nodes[n].arpeggioPatternId
  ELSE IF nodes[n].playbackStyle = "block" THEN ""
  ELSE EffectivePatternId(n - 1)

\* The section that handleAddToSong makes of the highlighted nodes (and the
\* tree of the drag payload): each node's effective pattern is stored as a
\* strum id or as an arpeggio id.
SectionOfNodes(label) ==
  [label |-> label,
   chords |-> [n \in 1..Len(nodes) |-> nodes[n].chord],
   voicingIndices |-> [n \in 1..Len(nodes) |-> nodes[n].voicingIndex],
   strumPatternIds |-> [n \in 1..Len(nodes) |->
                          IF "beats" \in DOMAIN getEffectivePatternForNode(n).pattern
                          THEN EffectivePatternId(n) ELSE ""],
   arpeggioPatternIds |-> [n \in 1..Len(nodes) |->
                             IF "noteOrder" \in DOMAIN getEffectivePatternForNode(n).pattern
                             THEN EffectivePatternId(n) ELSE ""]]

\* The array songStructure refers to.
songStructureNow == sectionArrays[songStructureAt]

\* The handlers below end with saveArrangerState or saveSong, mutators of
\* the store that SaveState models.

\* handleAddToSong: a section made of the highlighted nodes is pushed.
HandleAddToSong ==
  /\ Len(nodes) >= 1
  /\ Len(songStructureNow) < MaxSections
  /\ sectionArrays' = [sectionArrays EXCEPT ![songStructureAt] =
                         Append(@, SectionOfNodes(Len(@) + 1))]
  /\ UNCHANGED <<songStructureAt, savedSongs>>
  /\ UNCHANGED <<theoryVars, playbackVars, rhythmVars, catalogVars, exportVars, treeVars,
                 clickVars, besideArranger>>

\* handleProgressionDrop: the payload dragged from the progression bar is
\* parsed and pushed.
HandleProgressionDrop ==
  /\ Len(nodes) >= 2
  /\ Len(songStructureNow) < MaxSections
  /\ sectionArrays' = [sectionArrays EXCEPT ![songStructureAt] =
                         Append(@, SectionOfNodes(Len(@) + 1))]
  /\ UNCHANGED <<songStructureAt, savedSongs>>
  /\ UNCHANGED <<theoryVars, playbackVars, rhythmVars, catalogVars, exportVars, treeVars,
                 clickVars, besideArranger>>

\* array.splice(index, 1) and array.splice(index, 0, item), index from 0.
SpliceOut(array, index) ==
  [i \in 1..(Len(array) - 1) |-> IF i <= index THEN array[i] ELSE array[i + 1]]
SpliceIn(array, index, item) ==
  [i \in 1..(Len(array) + 1) |->
     IF i <= index THEN array[i] ELSE IF i = index + 1 THEN item ELSE array[i - 1]]

\* handleDrop: the section dragged is moved to where the placeholder stands.
HandleDrop ==
  /\ \E srcIndex \in 0..(Len(songStructureNow) - 1), placeholder \in 0..Len(songStructureNow) :
        LET targetIndex == IF srcIndex < placeholder THEN placeholder - 1 ELSE placeholder
        IN sectionArrays' = [sectionArrays EXCEPT ![songStructureAt] =
                               SpliceIn(SpliceOut(@, srcIndex), targetIndex, @[srcIndex + 1])]
  /\ UNCHANGED <<songStructureAt, savedSongs>>
  /\ UNCHANGED <<theoryVars, playbackVars, rhythmVars, catalogVars, exportVars, treeVars,
                 clickVars, besideArranger>>

\* handleDeleteSelectedSection: the section selected is spliced out.
HandleDeleteSelectedSection ==
  /\ \E index \in 0..(Len(songStructureNow) - 1) :
        sectionArrays' = [sectionArrays EXCEPT ![songStructureAt] = SpliceOut(@, index)]
  /\ UNCHANGED <<songStructureAt, savedSongs>>
  /\ UNCHANGED <<theoryVars, playbackVars, rhythmVars, catalogVars, exportVars, treeVars,
                 clickVars, besideArranger>>

\* handleClearSong: songStructure.length = 0.
HandleClearSong ==
  /\ Len(songStructureNow) > 0
  /\ sectionArrays' = [sectionArrays EXCEPT ![songStructureAt] = <<>>]
  /\ UNCHANGED <<songStructureAt, savedSongs>>
  /\ UNCHANGED <<theoryVars, playbackVars, rhythmVars, catalogVars, exportVars, treeVars,
                 clickVars, besideArranger>>

\* storage.saveSong({ name, structure }): { ...song, id } is pushed, its
\* structure being the array it was given.  savedAs records what the
\* structure held when the song was stored.
saveSong(songs, arrays, name, structure) ==
  [savedSongs |-> Append(songs, [name |-> name, structure |-> structure,
                                 savedAs |-> arrays[structure]]),
   sectionArrays |-> arrays]

\* openSaveSongModal and handleConfirmSaveSong: the arranger's structure is
\* saved under the name typed.
HandleConfirmSaveSong ==
  /\ Len(songStructureNow) > 0
  /\ Len(savedSongs) < MaxSongs
  /\ savedSongs' = saveSong(savedSongs, sectionArrays, "typed", songStructureAt).savedSongs
  /\ sectionArrays' = saveSong(savedSongs, sectionArrays, "typed", songStructureAt).sectionArrays
  /\ UNCHANGED songStructureAt
  /\ UNCHANGED <<theoryVars, playbackVars, rhythmVars, catalogVars, exportVars, treeVars,
                 clickVars, besideArranger>>

\* The click on a song of the saved songs list: setSongStructure(song.structure)
\* and renderSongInTree(song), which replaces the highlighted path by the
\* song's chords and hides the progression bar.
LoadSong ==
  /\ \E s \in 1..Len(savedSongs) : songStructureAt' = savedSongs[s].structure
  /\ nodes' = <<>>
  /\ indicator' = <<>>
  /\ handlerChord' = <<>>
  /\ expanded' = <<>>
  /\ UNCHANGED <<sectionArrays, savedSongs, midi, workspaceState, captured, lastClick>>
  /\ UNCHANGED <<theoryVars, playbackVars, rhythmVars, catalogVars, besideArranger>>

\* storage.importSongs for a file of one song: a song with a name and a
\* structure array is pushed unless a song of that name and structure is
\* there already.
importSongs(songs, arrays, importedSong) ==
  IF \E s \in 1..Len(songs) : /\ songs[s].name = importedSong.name
                              /\ arrays[songs[s].structure] = importedSong.structure
  THEN [savedSongs |-> songs, sectionArrays |-> arrays]
  ELSE [savedSongs |-> Append(songs, [name |-> importedSong.name,
                                      structure |-> Len(arrays) + 1,
                                      savedAs |-> importedSong.structure]),
        sectionArrays |-> Append(arrays, importedSong.structure)]

\* handleImportSongs
HandleImportSongs ==
  /\ Len(savedSongs) < MaxSongs
  /\ \E file \in ImportFiles :
        /\ savedSongs' = importSongs(savedSongs, sectionArrays, file[1]).savedSongs
        /\ sectionArrays' = importSongs(savedSongs, sectionArrays, file[1]).sectionArrays
  /\ UNCHANGED songStructureAt
  /\ UNCHANGED <<theoryVars, playbackVars, rhythmVars, catalogVars, exportVars, treeVars,
                 clickVars, besideArranger>>

NextArranger ==
  \/ HandleAddToSong
  \/ HandleProgressionDrop
  \/ HandleDrop
  \/ HandleDeleteSelectedSection
  \/ HandleClearSong
  \/ HandleConfirmSaveSong
  \/ LoadSong
  \/ HandleImportSongs

SpecArranger == InitArranger /\ [][NextArranger]_vars

\* ------------------------------------------------------------------------
\* C25, C26
\* ------------------------------------------------------------------------

\* C25: whatever arranger operations were made (the highlighted progression
\* added or dropped, sections moved, deleted or cleared, a saved or an
\* imported song loaded), the chords, voicingIndices, strumPatternIds and
\* arpeggioPatternIds of every section of the song structure have the same
\* length.
C25_SectionArraysShareLength ==
  \A i \in 1..Len(songStructureNow) :
     /\ Len(songStructureNow[i].voicingIndices) = Len(songStructureNow[i].chords)
     /\ Len(songStructureNow[i].strumPatternIds) = Len(songStructureNow[i].chords)
     /\ Len(songStructureNow[i].arpeggioPatternIds) = Len(songStructureNow[i].chords)

\* C26: the structure of a song stored with saveSong is not changed by a
\* later edit of the arranger, whether the song was saved from the arranger
\* or loaded into it.
C26_SavedSongKeepsItsStructure ==
  \A s \in 1..Len(savedSongs) : sectionArrays[savedSongs[s].structure] = savedSongs[s].savedAs


\* ------------------------------------------------------------------------
\* Chord substitution: tree.replaceChordNode and the click handler of a node
\* ------------------------------------------------------------------------

\* The key of the tree and the chords the substitution modal offers.
TreeKey == Name("C", "", "")
Substitutes == NodeChords \cup {Name("D", "", "m")}

\* The tree shows its root node in the key of C, guided mode, borrowed
\* chords off; the instrument is the guitar, the audio backend is initialised
\* and the sound catalogue is loaded.
InitReplace ==
  /\ args = [NoArgs EXCEPT !.key = TreeKey, !.allowBorrowed = FALSE]
  /\ heldChord = <<>>
  /\ heldRoman = <<>>
  /\ trace = <<>>
  /\ transposed = <<>>
  /\ rulesMajor = PROGRESSION_RULES_MAJOR
  /\ rulesMinor = PROGRESSION_RULES_MINOR
  /\ suggestions = <<>>
  /\ calls = 0
  /\ savedInstrument = "guitar"
  /\ highlightedNodes = <<>>
  /\ songStructure = <<>>
  /\ soundfontDefined = TRUE
  /\ loopActive = FALSE
  /\ buttons = ButtonsAtRest
  /\ isPlaying = FALSE
  /\ stopPlaybackRequested = FALSE
  /\ isLoopingActive = FALSE
  /\ seqPc = "idle"
  /\ seqCursor = 0
  /\ isSongPlaying = FALSE
  /\ stopSongRequested = FALSE
  /\ songPc = "idle"
  /\ songCursor = <<0, 0>>
  /\ isInitialized = TRUE
  /\ isInitializing = FALSE
  /\ welcomePc = "idle"
  /\ thenCallbacks = {}
  /\ played = {}
  /\ audit = [s \in Sessions |-> NoAudit]
  /\ initCaller = "none"
  /\ RhythmAtRest
  /\ chordDB = SoundCatalogue
  /\ voicingCall = <<>>
  /\ validatorRan = FALSE
  /\ issues = NoCatalogue
  /\ \E root \in NodeChords : nodes = <<NewNode(root)>>
  /\ midi = <<>>
  /\ AppAtRest

\* What mainClickHandler of the node created for chordName does when the
\* node clicked carries the attributes of node and stands expanded or not:
\* the chord it auditions with the voicing it plays, and, when it expands the
\* node, the chord whose successors it asks for, the children it creates and
\* the rules table the sort leaves.
mainClickHandler(chordName, node, isExpanded) ==
  LET call == getCommonProgressions(chordName, args.key, args.allowBorrowed, rulesMajor)
  IN [chord       |-> node.chord,
      auditioned  |-> chordName,
      sounded     |-> getVoicingForChord(chordName, savedInstrument, node.voicingIndex),
      expands     |-> ~isExpanded,
      expandedFor |-> IF isExpanded THEN <<>> ELSE chordName,
      children    |-> IF isExpanded THEN <<>> ELSE call.returned,
      rules       |-> IF isExpanded THEN rulesMajor ELSE call.rules]

\* A click on node n of the highlighted path: the node is auditioned,
\* collapsed when it stood expanded and expanded otherwise, and the
\* highlighted path ends at it.
MainClick ==
  /\ isInitialized
  /\ \E n \in 1..Len(nodes) :
     \E click \in {mainClickHandler(handlerChord[n], nodes[n], expanded[n])} :
        /\ lastClick' = [f \in DOMAIN click \ {"rules"} |-> click[f]]
        /\ suggestions' = click.children
        /\ rulesMajor' = click.rules
        /\ nodes' = SubSeq(nodes, 1, n)
        /\ handlerChord' = SubSeq(handlerChord, 1, n)
        /\ expanded' = [m \in 1..n |-> IF m = n THEN click.expands ELSE expanded[m]]
        /\ indicator' = SubSeq(indicator, 1, n)
  /\ UNCHANGED <<args, heldChord, heldRoman, trace, transposed, rulesMinor, calls>>
  /\ UNCHANGED <<midi, workspaceState, captured>>
  /\ UNCHANGED <<playbackVars, rhythmVars, catalogVars, storeVars, schedulerVars, arrangerVars>>

\* A click on one of the children of the path's last node, here a child the
\* modal also offers as a substitute: createChordNode made the child for the
\* suggested chord, the click auditions and expands it and the path grows by
\* it.
ClickChild ==
  /\ isInitialized
  /\ Len(nodes) \in 1..(MaxNodes - 1)
  /\ expanded[Len(nodes)]
  /\ \E i \in {j \in 1..Len(suggestions) : suggestions[j] \in Substitutes} :
     \E click \in {mainClickHandler(suggestions[i], NewNode(suggestions[i]), FALSE)} :
        /\ lastClick' = [f \in DOMAIN click \ {"rules"} |-> click[f]]
        /\ suggestions' = click.children
        /\ rulesMajor' = click.rules
        /\ nodes' = Append(nodes, NewNode(suggestions[i]))
        /\ handlerChord' = Append(handlerChord, suggestions[i])
        /\ expanded' = Append(expanded, TRUE)
        /\ indicator' = Append(indicator, NoIndicator)
  /\ UNCHANGED <<args, heldChord, heldRoman, trace, transposed, rulesMinor, calls>>
  /\ UNCHANGED <<midi, workspaceState, captured>>
  /\ UNCHANGED <<playbackVars, rhythmVars, catalogVars, storeVars, schedulerVars, arrangerVars>>

\* replaceChordNode(nodeToReplace, newChordName) as the substitution modal's
\* Select button calls it for node n of the path: the node's chord and
\* voicing index are rewritten, its children are removed and it is collapsed.
\* The node keeps its click handler.
ReplaceChordNode ==
  /\ savedInstrument # "none"
  /\ \E n \in 1..Len(nodes), newChordName \in Substitutes :
        /\ nodes' = [m \in 1..n |-> IF m = n
                                    THEN [nodes[n] EXCEPT !.chord = newChordName,
                                                          !.voicingIndex = 0]
                                    ELSE nodes[m]]
        /\ handlerChord' = SubSeq(handlerChord, 1, n)
        /\ expanded' = [m \in 1..n |-> IF m = n THEN FALSE ELSE expanded[m]]
        /\ indicator' = SubSeq(indicator, 1, n)
  /\ suggestions' = <<>>
  /\ UNCHANGED <<args, heldChord, heldRoman, trace, transposed, rulesMajor, rulesMinor, calls>>
  /\ UNCHANGED <<midi, workspaceState, captured, lastClick>>
  /\ UNCHANGED <<playbackVars, rhythmVars, catalogVars, storeVars, schedulerVars, arrangerVars>>

NextReplace ==
  \/ MainClick
  \/ ClickChild
  \/ ReplaceChordNode

SpecReplace == InitReplace /\ [][NextReplace]_vars

\* C27: after replaceChordNode(node, c2) a click on the node auditions c2 and
\* expands the successors of c2, the chord the node's data-chord attribute
\* holds, which playSequence, the workspace snapshot and MIDI export read.
C27_ClickUsesReplacedChord ==
  lastClick # <<>> =>
    /\ lastClick.auditioned = lastClick.chord
    /\ lastClick.expands => lastClick.expandedFor = lastClick.chord

\* The step calls audio.playChord for a block chord of playSequence or of
\* playFullSong.
PlaysBlockChord ==
  \/ /\ SeqStep
     /\ seqCursor' = seqCursor + 1
     /\ highlightedNodes[seqCursor + 1] = "block"
  \/ /\ SongStep
     /\ songCursor' = <<songCursor[1], songCursor[2] + 1>>
     /\ songStructure[songCursor[1]][songCursor[2] + 1] = "block"

\* The promise of a call of audio.init() resolves for its caller in this
\* step: the await of playFullSong or of the welcome screen's handler goes on,
\* or the callback playChord chained with then runs.  A call that returns at
\* its first line, or that throws before its first await, resolves with the
\* step that makes the call.
InitAwaitResolves ==
  \/ songPc \in {"idle", "init"} /\ songPc' = "run"
  \/ savedInstrument = "none" /\ savedInstrument' = "guitar"
  \/ PlaysBlockChord /\ ~isInitialized /\ ~InitPends
  \/ InitSettle /\ thenCallbacks # {}

\* C29: whenever a caller's await of audio.init() resolves, no initialisation
\* is in progress any more; the backend is then initialised or the attempt
\* has failed.
C29_InitAwaitedToItsEnd == [][InitAwaitResolves => ~isInitializing']_vars
====
